---- MODULE Spec2Model ----
(***************************************************************************)
(* State-machine model of libavcodec/mpegvideo_dec.c: the picture pool of  *)
(* an MpegEncContext, its three role pointers (current, last, next), the   *)
(* per-frame role rotation of ff_mpv_frame_start with dummy-reference      *)
(* synthesis, ff_mpv_common_frame_size_change, ff_mpeg_flush and           *)
(* ff_mpeg_update_thread_context between two decoding contexts.            *)
(*                                                                         *)
(* Buffers are named by small integers; a slot, a working copy or another  *)
(* context holding the same name shares the same reference-counted buffer. *)
(* A buffer lives as long as some slot or working copy names it.           *)
(*                                                                         *)
(* Helpers that live outside mpegvideo_dec.c (mpegpicture.c, mpegvideo.c,  *)
(* libavutil, the frame-threading framework) are modelled from their       *)
(* contract.                                                               *)
(***************************************************************************)
EXTENDS Integers, FiniteSets, Sequences, TLC

\* ---------------------------------------------------------------- bounds
\* Number of slots of the picture pool (scaled down for model checking).
MAX_PICTURE_COUNT == 4
\* Number of buffer names available to the allocator.
NBuf == 8

\* ------------------------------------------------------------- constants
INT_MAX == 2147483647
NULL == -1
AV_INPUT_BUFFER_PADDING_SIZE == 64
\* av_image_check_size: largest width/height accepted (scaled down).
SaneDim == 2

AV_PICTURE_TYPE_I == "I"
AV_PICTURE_TYPE_P == "P"
AV_PICTURE_TYPE_B == "B"
PictTypes == {AV_PICTURE_TYPE_I, AV_PICTURE_TYPE_P, AV_PICTURE_TYPE_B}

AV_CODEC_ID_H263  == "H263"
AV_CODEC_ID_FLV1  == "FLV1"
AV_CODEC_ID_MPEG4 == "MPEG4"
Codecs == {AV_CODEC_ID_H263, AV_CODEC_ID_FLV1, AV_CODEC_ID_MPEG4}

EINVAL == 22
ENOMEM == 12
ENOSYS == 38
AVERROR(e) == -e

Slots == 0 .. (MAX_PICTURE_COUNT - 1)
BufIds == 1 .. NBuf
Ctx == {0, 1}
Roles == {"cur", "last", "next"}

\* Geometries a caller may install before a (re)initialisation: width,
\* height and pixel format.
GeomA     == [w |-> 1, h |-> 2, fmt |-> "YUV420P"]
GeomB     == [w |-> 2, h |-> 1, fmt |-> "YUV420P"]
GeomGray  == [w |-> 2, h |-> 2, fmt |-> "GRAY8"]
GeomUnset == [w |-> 0, h |-> 0, fmt |-> "YUV420P"]
GeomHuge  == [w |-> SaneDim + 1, h |-> 1, fmt |-> "YUV420P"]
GeomNoFmt == [w |-> 1, h |-> 2, fmt |-> "NONE"]
\* Two valid 4:2:0 sizes, the unset size 0x0, a size above the sane bound,
\* and a pixel format without a descriptor.
Geometries == {GeomA, GeomB, GeomUnset, GeomHuge, GeomNoFmt}

InitGeometry == GeomA

VARIABLES
    ctx,        \* ctx[c]: the MpegEncContext of decoding context c
    bufs,       \* bufs[b]: the frame buffer named b
    op,         \* the last operation that returned, its context and status
    codec_id,   \* s->codec_id
    hwaccel,    \* avctx->hwaccel != NULL
    mb          \* the macroblock function under way: its inputs and results

vars == <<ctx, bufs, op, codec_id, hwaccel, mb>>

\* ------------------------------------------------------------ data types
\* A Picture: f->buf[0] (0 when the frame holds no buffer),
\* f->coded_picture_number, reference and needs_realloc.
EmptyPic == [buf |-> 0, coded_picture_number |-> 0, reference |-> 0, needs_realloc |-> FALSE]

EmptyPlane == [p \in {} |-> 0]

\* A released buffer name.
NoBuf == [w |-> 0, h |-> 0, fmt |-> "NONE",
          data |-> <<EmptyPlane, EmptyPlane, EmptyPlane>>,
          progress |-> <<0, 0>>, dummy |-> "no"]

\* The bitstream buffer of a context is bitstream_buffer (whether the
\* pointer is set), bitstream_bytes (the bytes of the allocation, -1 for a
\* byte never written), allocated_bitstream_buffer_size and
\* bitstream_buffer_size.
\* A context before ff_mpv_common_init (all zero).  phase is the caller's
\* position in the decoding of a picture: "idle", "decoding" after a
\* successful ff_mpv_frame_start, "ended" after ff_mpv_frame_end.
ZeroContext ==
    [context_initialized |-> FALSE,
     context_reinit |-> FALSE,
     has_picture |-> FALSE,
     frame_alloc |-> FALSE,
     width |-> 0, height |-> 0, pix_fmt |-> InitGeometry.fmt,
     chroma_x_shift |-> 0, chroma_y_shift |-> 0,
     picture |-> [i \in Slots |-> EmptyPic],
     coded_picture_number |-> 0,
     current_picture_ptr |-> NULL,
     last_picture_ptr |-> NULL,
     next_picture_ptr |-> NULL,
     current_picture |-> EmptyPic,
     last_picture |-> EmptyPic,
     next_picture |-> EmptyPic,
     pict_type |-> AV_PICTURE_TYPE_I,
     droppable |-> FALSE,
     mb_x |-> 0, mb_y |-> 0,
     bitstream_buffer |-> FALSE,
     bitstream_bytes |-> << >>,
     allocated_bitstream_buffer_size |-> 0,
     bitstream_buffer_size |-> 0,
     phase |-> "idle",
     given |-> [r \in Roles |-> 0]]

\* ------------------------------------------------------- buffer naming
SlotIds(s) == {s.picture[i].buf : i \in Slots}
WorkIds(s) == {s.current_picture.buf, s.last_picture.buf, s.next_picture.buf}
\* Names referenced by a slot or a working copy of s.
LiveIds(s) == (SlotIds(s) \cup WorkIds(s)) \ {0}
\* Names that must not be handed out again: live ones and the ones a role
\* pointer was given (history, kept so a recycled slot is told apart).
NameIds(s) == LiveIds(s) \cup ({s.given[r] : r \in Roles} \ {0})

FreshBuf(used) ==
    CHOOSE b \in BufIds : b \notin used /\ \A x \in BufIds : x \notin used => b <= x

\* ------------------------------------------------------ libavutil helpers
AV_CEIL_RSHIFT(a, b) == (a + (2 ^ b) - 1) \div (2 ^ b)

FFMAX(a, b) == IF a > b THEN a ELSE b

\* av_pix_fmt_get_chroma_sub_sample: <<status, h_shift, v_shift>>.
av_pix_fmt_get_chroma_sub_sample(fmt) ==
    CASE fmt = "YUV420P" -> <<0, 1, 1>>
      [] fmt = "GRAY8"   -> <<0, 0, 0>>
      [] OTHER           -> <<AVERROR(ENOSYS), 0, 0>>

\* av_image_check_size: 0 when the size is usable, an error otherwise.
av_image_check_size(w, h) ==
    IF w <= 0 \/ h <= 0 \/ w > SaneDim \/ h > SaneDim THEN AVERROR(EINVAL) ELSE 0

\* memset(data + linesize * i, val, n) for i = 0 .. rows - 1.
MemsetRows(plane, rows, val, n) ==
    [p \in DOMAIN plane |-> IF p[1] < rows /\ p[2] < n THEN val ELSE plane[p]]

\* The planes get_buffer hands out: unwritten samples (-1), one sample of
\* line padding, chroma planes only for a format that has them.
NewPlane(rows, linesize) == [p \in (0 .. rows - 1) \X (0 .. linesize - 1) |-> -1]

get_buffer(w, h, fmt) ==
    LET sh == av_pix_fmt_get_chroma_sub_sample(fmt)
        cw == AV_CEIL_RSHIFT(w, sh[2])
        ch == AV_CEIL_RSHIFT(h, sh[3])
        chroma == IF fmt = "YUV420P" THEN NewPlane(ch, cw + 1) ELSE EmptyPlane
    IN [w |-> w, h |-> h, fmt |-> fmt,
        data |-> <<NewPlane(h, w + 1), chroma, chroma>>,
        progress |-> <<-1, -1>>, dummy |-> "no"]

\* ff_thread_report_progress(&pic->tf, n, field): progress only advances.
ff_thread_report_progress(B, b, n, field) ==
    IF b = 0 \/ B[b].progress[field + 1] >= n THEN B
    ELSE [B EXCEPT ![b].progress[field + 1] = n]

\* ------------------------------------------------------ mpegpicture.c
\* ff_mpeg_unref_picture: drops the frame's buffer, which resets the frame's
\* properties to their defaults (coded_picture_number 0), and zeroes the
\* fields after it, reference and needs_realloc included.
ff_mpeg_unref_picture(pic) == EmptyPic

\* ff_mpeg_ref_picture(dst, src) on success: a new reference to src's buffer
\* with src's frame properties, reference and needs_realloc.
ff_mpeg_ref_picture(src) ==
    [buf |-> src.buf, coded_picture_number |-> src.coded_picture_number,
     reference |-> src.reference, needs_realloc |-> src.needs_realloc]

pic_is_unused(pic) == pic.buf = 0 \/ pic.needs_realloc

\* ff_find_unused_picture(avctx, picture, 0): the first unused slot, or a
\* negative value; a slot flagged needs_realloc is released before it is
\* returned.  Result: the index and the pool after the call.
ff_find_unused_picture(picture) ==
    IF \E i \in Slots : pic_is_unused(picture[i])
    THEN LET idx == CHOOSE i \in Slots : pic_is_unused(picture[i])
                        /\ \A j \in Slots : pic_is_unused(picture[j]) => i <= j
         IN [idx |-> idx,
             picture |-> IF picture[idx].needs_realloc
                         THEN [picture EXCEPT ![idx] = ff_mpeg_unref_picture(picture[idx])]
                         ELSE picture]
    ELSE [idx |-> -1, picture |-> picture]

\* ff_alloc_picture through alloc_picture(s, pic): on success slot idx gets a
\* fresh buffer of the context's size and format; on failure (no memory, or
\* a size get_buffer rejects) the slot is unreferenced.  `others` are the
\* buffer names held by the other context.
alloc_picture(s, B, idx, ok, others) ==
    IF ok /\ av_image_check_size(s.width, s.height) = 0
    THEN LET b == FreshBuf(NameIds(s) \cup others)
         IN [s |-> [s EXCEPT !.picture[idx].buf = b],
             B |-> [B EXCEPT ![b] = get_buffer(s.width, s.height, s.pix_fmt)],
             ret |-> 0, why |-> "ok", nref |-> 0]
    ELSE [s |-> [s EXCEPT !.picture[idx] = ff_mpeg_unref_picture(s.picture[idx])],
          B |-> B,
          ret |-> -1, why |-> "alloc", nref |-> 0]

\* ------------------------------------------------- ff_mpv_frame_start
\* mark & release old frames
ReleaseOldLast(s) ==
    IF /\ s.pict_type # AV_PICTURE_TYPE_B
       /\ s.last_picture_ptr # NULL
       /\ s.last_picture_ptr # s.next_picture_ptr
       /\ s.picture[s.last_picture_ptr].buf # 0
    THEN [s EXCEPT !.picture[s.last_picture_ptr] =
                        ff_mpeg_unref_picture(s.picture[s.last_picture_ptr])]
    ELSE s

\* A release loop that forgets that the next role protects its slot.
ReleaseForgotten_NextUnprotected(s) ==
    [s EXCEPT !.picture =
        [i \in Slots |->
            IF \/ s.picture[i].reference = 0
               \/ (i # s.last_picture_ptr /\ ~s.picture[i].needs_realloc)
            THEN ff_mpeg_unref_picture(s.picture[i])
            ELSE s.picture[i]]]

\* No release loop at all.
ReleaseForgotten_Nothing(s) == s

\* A release loop that keeps every slot of the last or next role or
\* flagged needs_realloc, whatever its reference.
ReleaseForgotten_KeepsNonReference(s) ==
    [s EXCEPT !.picture =
        [i \in Slots |->
            IF /\ i # s.last_picture_ptr
               /\ i # s.next_picture_ptr
               /\ ~s.picture[i].needs_realloc
            THEN ff_mpeg_unref_picture(s.picture[i])
            ELSE s.picture[i]]]

\* release non reference/forgotten frames
ReleaseForgotten(s) ==
    [s EXCEPT !.picture =
        [i \in Slots |->
            IF \/ s.picture[i].reference = 0
               \/ (/\ i # s.last_picture_ptr
                   /\ i # s.next_picture_ptr
                   /\ ~s.picture[i].needs_realloc)
            THEN ff_mpeg_unref_picture(s.picture[i])
            ELSE s.picture[i]]]

\* A start that leaves the working copy of the last picture in place.
UnrefWorking_KeepsLast(s) ==
    [s EXCEPT !.current_picture = ff_mpeg_unref_picture(s.current_picture),
              !.next_picture    = ff_mpeg_unref_picture(s.next_picture)]


\* the three working copies are unreferenced
UnrefWorking(s) ==
    [s EXCEPT !.current_picture = ff_mpeg_unref_picture(s.current_picture),
              !.last_picture    = ff_mpeg_unref_picture(s.last_picture),
              !.next_picture    = ff_mpeg_unref_picture(s.next_picture)]

\* pic: the slot already set as current when it is empty, else an unused one
SelectCurrent(s) ==
    IF s.current_picture_ptr # NULL /\ s.picture[s.current_picture_ptr].buf = 0
    THEN [idx |-> s.current_picture_ptr, s |-> s]
    ELSE LET f == ff_find_unused_picture(s.picture)
         IN [idx |-> f.idx, s |-> [s EXCEPT !.picture = f.picture]]

\* A reference strength that ignores droppable.
MarkReference_IgnoresDroppable(s, idx) ==
    [s EXCEPT !.picture[idx].reference =
        IF s.pict_type # AV_PICTURE_TYPE_B THEN 3 ELSE 0]

\* pic->reference
MarkReference(s, idx) ==
    [s EXCEPT !.picture[idx].reference =
        IF ~s.droppable /\ s.pict_type # AV_PICTURE_TYPE_B THEN 3 ELSE 0]

\* A numbering that leaves the counter where it is.
NumberPicture_NoIncrement(s, idx) ==
    [s EXCEPT !.picture[idx].coded_picture_number = s.coded_picture_number]

\* pic->f->coded_picture_number = s->coded_picture_number++
NumberPicture(s, idx) ==
    [s EXCEPT !.picture[idx].coded_picture_number = s.coded_picture_number,
              !.coded_picture_number = s.coded_picture_number + 1]

\* s->current_picture_ptr = pic
SetCurrent(s, idx) ==
    [s EXCEPT !.current_picture_ptr = idx,
              !.given["cur"] = s.picture[idx].buf]

\* A rotation in which next becomes the current slot even when the picture
\* is droppable.
RotateRoles_IgnoresDroppable(s) ==
    IF s.pict_type # AV_PICTURE_TYPE_B
    THEN [s EXCEPT !.last_picture_ptr = s.next_picture_ptr,
                   !.given["last"] = s.given["next"],
                   !.next_picture_ptr = s.current_picture_ptr,
                   !.given["next"] = s.given["cur"]]
    ELSE s

\* the role rotation
RotateRoles(s) ==
    IF s.pict_type # AV_PICTURE_TYPE_B
    THEN LET s1 == [s EXCEPT !.last_picture_ptr = s.next_picture_ptr,
                             !.given["last"] = s.given["next"]]
         IN IF ~s1.droppable
            THEN [s1 EXCEPT !.next_picture_ptr = s1.current_picture_ptr,
                            !.given["next"] = s1.given["cur"]]
            ELSE s1
    ELSE s

\* A fill whose chroma height is rounded down.
FillDummyLast_FloorChroma(buf, w, h, fmt, hw, codec) ==
    IF hw THEN buf
    ELSE LET sh  == av_pix_fmt_get_chroma_sub_sample(fmt)
             y0  == MemsetRows(buf.data[1], h, 128, w)
             has == buf.data[3] # EmptyPlane
             cb  == IF has THEN MemsetRows(buf.data[2], h \div (2 ^ sh[3]),
                                           128, AV_CEIL_RSHIFT(w, sh[2]))
                    ELSE buf.data[2]
             cr  == IF has THEN MemsetRows(buf.data[3], h \div (2 ^ sh[3]),
                                           128, AV_CEIL_RSHIFT(w, sh[2]))
                    ELSE buf.data[3]
             y1  == IF codec = AV_CODEC_ID_FLV1 \/ codec = AV_CODEC_ID_H263
                    THEN MemsetRows(y0, h, 16, w) ELSE y0
         IN [buf EXCEPT !.data = <<y1, cb, cr>>]

\* The fill of a dummy last picture: grey luma and chroma, luma 16 for
\* FLV1 and H.263, nothing with a hardware accelerator.
FillDummyLast(buf, w, h, fmt, hw, codec) ==
    IF hw THEN buf
    ELSE LET sh  == av_pix_fmt_get_chroma_sub_sample(fmt)
             y0  == MemsetRows(buf.data[1], h, 128, w)
             has == buf.data[3] # EmptyPlane
             cb  == IF has THEN MemsetRows(buf.data[2], AV_CEIL_RSHIFT(h, sh[3]),
                                           128, AV_CEIL_RSHIFT(w, sh[2]))
                    ELSE buf.data[2]
             cr  == IF has THEN MemsetRows(buf.data[3], AV_CEIL_RSHIFT(h, sh[3]),
                                           128, AV_CEIL_RSHIFT(w, sh[2]))
                    ELSE buf.data[3]
             y1  == IF codec = AV_CODEC_ID_FLV1 \/ codec = AV_CODEC_ID_H263
                    THEN MemsetRows(y0, h, 16, w) ELSE y0
         IN [buf EXCEPT !.data = <<y1, cb, cr>>]

\* Progress published for the first field only.
PublishDummy_OneField(B, b) ==
    ff_thread_report_progress(B, b, INT_MAX, 0)

\* Progress of a dummy picture is published as done for both fields.
PublishDummy(B, b) ==
    ff_thread_report_progress(ff_thread_report_progress(B, b, INT_MAX, 0), b, INT_MAX, 1)

\* "no frame buffer available": the search found no unused slot.  The
\* result records how many slots the set role pointers referred to with a
\* buffer in them when the search failed.
NoFrameBuffer(s, B, idx) ==
    [s |-> s, B |-> B, ret |-> idx, why |-> "no_buffer",
     nref |-> Cardinality({i \in Slots :
                 /\ s.picture[i].buf # 0
                 /\ i \in {s.current_picture_ptr, s.last_picture_ptr, s.next_picture_ptr}})]

\* A dummy last picture for P pictures only.
NeedDummyLast_OnlyP(s) ==
    /\ (s.last_picture_ptr = NULL \/ s.picture[s.last_picture_ptr].buf = 0)
    /\ s.pict_type = AV_PICTURE_TYPE_P

\* A test of the last role that looks at the pointer alone.
NeedDummyLast_PointerOnly(s) ==
    /\ s.last_picture_ptr = NULL
    /\ s.pict_type # AV_PICTURE_TYPE_I

\* if ((!last_picture_ptr || !last_picture_ptr->f->buf[0]) && pict_type != I)
NeedDummyLast(s) ==
    /\ (s.last_picture_ptr = NULL \/ s.picture[s.last_picture_ptr].buf = 0)
    /\ s.pict_type # AV_PICTURE_TYPE_I

\* Allocate a dummy last picture.  Result: context, buffers, status.
DummyLast(s, B, ok, others, hw, codec) ==
    LET f == ff_find_unused_picture(s.picture)
    IN IF f.idx < 0 THEN NoFrameBuffer(s, B, f.idx)
       ELSE
       LET s1 == [s EXCEPT !.picture = [f.picture EXCEPT ![f.idx].reference = 3],
                           !.last_picture_ptr = f.idx]
           a  == alloc_picture(s1, B, f.idx, ok, others)
       IN IF a.ret < 0
          THEN [s |-> [a.s EXCEPT !.last_picture_ptr = NULL, !.given["last"] = 0],
                B |-> a.B, ret |-> -1, why |-> "alloc", nref |-> 0]
          ELSE
          LET b  == a.s.picture[f.idx].buf
              B1 == [a.B EXCEPT ![b] = [FillDummyLast(a.B[b], s.width, s.height,
                                                      s.pix_fmt, hw, codec)
                                            EXCEPT !.dummy = "last"]]
          IN [s |-> [a.s EXCEPT !.given["last"] = b],
              B |-> PublishDummy(B1, b), ret |-> 0, why |-> "ok", nref |-> 0]

NeedDummyNext(s) ==
    /\ (s.next_picture_ptr = NULL \/ s.picture[s.next_picture_ptr].buf = 0)
    /\ s.pict_type = AV_PICTURE_TYPE_B

\* Allocate a dummy next picture.
DummyNext(s, B, ok, others) ==
    LET f == ff_find_unused_picture(s.picture)
    IN IF f.idx < 0 THEN NoFrameBuffer(s, B, f.idx)
       ELSE
       LET s1 == [s EXCEPT !.picture = [f.picture EXCEPT ![f.idx].reference = 3],
                           !.next_picture_ptr = f.idx]
           a  == alloc_picture(s1, B, f.idx, ok, others)
       IN IF a.ret < 0
          THEN [s |-> [a.s EXCEPT !.next_picture_ptr = NULL, !.given["next"] = 0],
                B |-> a.B, ret |-> -1, why |-> "alloc", nref |-> 0]
          ELSE
          LET b  == a.s.picture[f.idx].buf
              B1 == [a.B EXCEPT ![b].dummy = "next"]
          IN [s |-> [a.s EXCEPT !.given["next"] = b],
              B |-> PublishDummy(B1, b), ret |-> 0, why |-> "ok", nref |-> 0]

\* Points at which an allocation inside ff_mpv_frame_start can fail.
FailPoints == {"none", "alloc_cur", "ref_cur", "alloc_last", "alloc_next",
               "ref_last", "ref_next"}
\* The failures of buffer allocation alone.
AllocFailPoints == {"none", "alloc_cur", "alloc_last", "alloc_next"}

\* The working copies last_picture and next_picture take references.
RefLastNext(s, fail) ==
    LET hasl == s.last_picture_ptr # NULL /\ s.picture[s.last_picture_ptr].buf # 0
        hasn == s.next_picture_ptr # NULL /\ s.picture[s.next_picture_ptr].buf # 0
    IN IF hasl /\ fail = "ref_last"
       THEN [s |-> [s EXCEPT !.last_picture = ff_mpeg_unref_picture(s.last_picture)],
             ret |-> AVERROR(ENOMEM)]
       ELSE
       LET s1 == IF hasl
                 THEN [s EXCEPT !.last_picture =
                                    ff_mpeg_ref_picture(s.picture[s.last_picture_ptr])]
                 ELSE s
       IN IF hasn /\ fail = "ref_next"
          THEN [s |-> [s1 EXCEPT !.next_picture = ff_mpeg_unref_picture(s1.next_picture)],
                ret |-> AVERROR(ENOMEM)]
          ELSE [s |-> IF hasn
                      THEN [s1 EXCEPT !.next_picture =
                                          ff_mpeg_ref_picture(s1.picture[s1.next_picture_ptr])]
                      ELSE s1,
                ret |-> 0]

\* From the role rotation to the end of ff_mpv_frame_start.
FrameStartTail(s, B, others, fail, hw, codec) ==
    LET s5 == RotateRoles(s)
        dl == IF NeedDummyLast(s5)
              THEN DummyLast(s5, B, fail # "alloc_last", others, hw, codec)
              ELSE [s |-> s5, B |-> B, ret |-> 0, why |-> "ok", nref |-> 0]
    IN IF dl.ret < 0 THEN dl
       ELSE
       LET dn == IF NeedDummyNext(dl.s)
                 THEN DummyNext(dl.s, dl.B, fail # "alloc_next", others)
                 ELSE dl
       IN IF dn.ret < 0 THEN dn
          ELSE LET r == RefLastNext(dn.s, fail)
               IN [s |-> r.s, B |-> dn.B, ret |-> r.ret,
                   why |-> IF r.ret < 0 THEN "ref" ELSE "ok", nref |-> 0]

\* ff_mpv_frame_start(s, avctx).  Result: context, buffers, status.
ff_mpv_frame_start(s, B, others, can_start, fail, hw, codec) ==
    IF ~can_start THEN [s |-> s, B |-> B, ret |-> -1, why |-> "not_setup", nref |-> 0]
    ELSE
    LET s2  == UnrefWorking(ReleaseForgotten(ReleaseOldLast(s)))
        sel == SelectCurrent(s2)
    IN IF sel.idx < 0 THEN NoFrameBuffer(sel.s, B, sel.idx)
       ELSE
       LET a == alloc_picture(NumberPicture(MarkReference(sel.s, sel.idx), sel.idx),
                              B, sel.idx, fail # "alloc_cur", others)
       IN IF a.ret < 0 THEN a
          ELSE
          LET s4 == SetCurrent(a.s, sel.idx)
          IN IF fail = "ref_cur"
             THEN [s |-> [s4 EXCEPT !.current_picture =
                                        ff_mpeg_unref_picture(s4.current_picture)],
                   B |-> a.B, ret |-> AVERROR(ENOMEM), why |-> "ref", nref |-> 0]
             ELSE FrameStartTail(
                      [s4 EXCEPT !.current_picture =
                                     ff_mpeg_ref_picture(s4.picture[s4.current_picture_ptr])],
                      a.B, others, fail, hw, codec)

\* ------------------------------------------------------ mpegvideo.c
\* ff_mpv_free_context_frame: the frame-size dependent allocations go; the
\* picture pool is not touched.
ff_mpv_free_context_frame(s) == [s EXCEPT !.frame_alloc = FALSE]

\* ff_mpv_init_context_frame on success.
ff_mpv_init_context_frame(s) == [s EXCEPT !.frame_alloc = TRUE]

\* ff_mpv_common_init(s): validates the size and the pixel format, clears
\* the working copies, allocates an empty pool and the frame-size dependent
\* tables.  Result: context and status (the context is unspecified on error,
\* the caller zeroes it).
ff_mpv_common_init(s, ok) ==
    LET sh == av_pix_fmt_get_chroma_sub_sample(s.pix_fmt)
    IN IF (s.width # 0 \/ s.height # 0) /\ av_image_check_size(s.width, s.height) < 0
       THEN [s |-> s, ret |-> AVERROR(EINVAL)]
       ELSE IF sh[1] < 0 THEN [s |-> s, ret |-> sh[1]]
       ELSE IF ~ok THEN [s |-> s, ret |-> AVERROR(ENOMEM)]
       ELSE [s |-> [s EXCEPT !.chroma_x_shift = sh[2],
                             !.chroma_y_shift = sh[3],
                             !.has_picture = TRUE,
                             !.picture = [i \in Slots |-> EmptyPic],
                             !.current_picture = EmptyPic,
                             !.last_picture = EmptyPic,
                             !.next_picture = EmptyPic,
                             !.frame_alloc = TRUE,
                             !.context_initialized = TRUE],
             ret |-> 0]

\* ------------------------------------ ff_mpv_common_frame_size_change
\* The three role pointers are cleared.
ClearRoles(s) ==
    [s EXCEPT !.last_picture_ptr = NULL,
              !.next_picture_ptr = NULL,
              !.current_picture_ptr = NULL,
              !.given = [r \in Roles |-> 0]]

\* A size change that flags the slots and keeps the role pointers.
SizeChangeRetire_KeepsRoles(s) ==
    LET s1 == ff_mpv_free_context_frame(s)
    IN IF s1.has_picture
       THEN [s1 EXCEPT !.picture =
                [i \in Slots |-> [s1.picture[i] EXCEPT !.needs_realloc = TRUE]]]
       ELSE s1

\* A size change that releases the buffers at once.
SizeChangeRetire_Releases(s) ==
    LET s1 == ff_mpv_free_context_frame(s)
    IN ClearRoles([s1 EXCEPT !.picture =
                      [i \in Slots |-> ff_mpeg_unref_picture(s1.picture[i])]])

\* The start of the size change: the frame-size dependent allocations are
\* freed, every slot of the pool is flagged needs_realloc (no buffer is
\* released), the role pointers are cleared.
SizeChangeRetire(s) ==
    LET s1 == ff_mpv_free_context_frame(s)
        s2 == IF s1.has_picture
              THEN [s1 EXCEPT !.picture =
                       [i \in Slots |-> [s1.picture[i] EXCEPT !.needs_realloc = TRUE]]]
              ELSE s1
    IN ClearRoles(s2)

\* The validation of the new size: av_image_check_size unless both
\* dimensions are zero.
SizeChangeCheck(w, h) ==
    IF w # 0 \/ h # 0 THEN av_image_check_size(w, h) ELSE 0

\* The fail label.
SizeChangeFail(s, err, why) ==
    [s |-> [ff_mpv_free_context_frame(s) EXCEPT !.context_reinit = TRUE],
     ret |-> err, why |-> why]

\* Points at which a reallocation inside the size change can fail.
SizeFailPoints == {"none", "init_context_frame", "init_duplicate_contexts"}

\* ff_mpv_common_frame_size_change(s).  Result: context, status and cause.
ff_mpv_common_frame_size_change(s, fail) ==
    IF ~s.context_initialized
    THEN [s |-> s, ret |-> AVERROR(EINVAL), why |-> "uninit"]
    ELSE
    LET s1  == SizeChangeRetire(s)
        chk == SizeChangeCheck(s1.width, s1.height)
        sh  == av_pix_fmt_get_chroma_sub_sample(s1.pix_fmt)
    IN IF chk < 0 THEN SizeChangeFail(s1, chk, "size")
       ELSE IF sh[1] < 0 THEN SizeChangeFail(s1, sh[1], "format")
       ELSE
       LET s2 == [s1 EXCEPT !.chroma_x_shift = sh[2], !.chroma_y_shift = sh[3]]
       IN IF fail = "init_context_frame"
          THEN SizeChangeFail(s2, AVERROR(ENOMEM), "alloc")
          ELSE
          LET s3 == ff_mpv_init_context_frame(s2)
          IN IF s3.width # 0 /\ s3.height # 0 /\ fail = "init_duplicate_contexts"
             THEN SizeChangeFail(s3, AVERROR(ENOMEM), "alloc")
             ELSE [s |-> [s3 EXCEPT !.context_reinit = FALSE], ret |-> 0, why |-> "ok"]

\* ------------------------------------------------------ ff_mpeg_flush
\* A flush that leaves the position and the bitstream size alone.
ff_mpeg_flush_KeepsPosition(s) ==
    IF ~s.has_picture THEN s
    ELSE [ClearRoles(s) EXCEPT
              !.picture = [i \in Slots |-> ff_mpeg_unref_picture(s.picture[i])],
              !.current_picture = ff_mpeg_unref_picture(s.current_picture),
              !.last_picture = ff_mpeg_unref_picture(s.last_picture),
              !.next_picture = ff_mpeg_unref_picture(s.next_picture)]

ff_mpeg_flush(s) ==
    IF ~s.has_picture THEN s
    ELSE [ClearRoles(s) EXCEPT
              !.picture = [i \in Slots |-> ff_mpeg_unref_picture(s.picture[i])],
              !.current_picture = ff_mpeg_unref_picture(s.current_picture),
              !.last_picture = ff_mpeg_unref_picture(s.last_picture),
              !.next_picture = ff_mpeg_unref_picture(s.next_picture),
              !.mb_x = 0, !.mb_y = 0,
              !.bitstream_buffer_size = 0]

\* ------------------------------------------------- ff_mpv_frame_end
\* The current picture is published as done when the working copy is a
\* reference.
ff_mpv_frame_end(s, B) ==
    IF s.current_picture.reference # 0
    THEN ff_thread_report_progress(B, s.picture[s.current_picture_ptr].buf, INT_MAX, 0)
    ELSE B

\* ------------------------------------ ff_mpv_report_decode_progress
\* A row report that stores the row in the counter.
ff_mpv_report_decode_progress_Stores(s, B, quiet) ==
    IF s.pict_type # AV_PICTURE_TYPE_B /\ ~quiet
    THEN [B EXCEPT ![s.picture[s.current_picture_ptr].buf].progress[1] = s.mb_y]
    ELSE B

\* A row report that publishes the picture as done.
ff_mpv_report_decode_progress_Done(s, B, quiet) ==
    IF s.pict_type # AV_PICTURE_TYPE_B /\ ~quiet
    THEN ff_thread_report_progress(B, s.picture[s.current_picture_ptr].buf, INT_MAX, 0)
    ELSE B

\* quiet: the frame is partitioned or an error has occurred.
ff_mpv_report_decode_progress(s, B, quiet) ==
    IF s.pict_type # AV_PICTURE_TYPE_B /\ ~quiet
    THEN ff_thread_report_progress(B, s.picture[s.current_picture_ptr].buf, s.mb_y, 0)
    ELSE B

\* -------------------------------------- ff_mpeg_update_thread_context
\* A rebase onto the base of the new pool.
REBASE_PICTURE_Base(pic) == IF pic # NULL /\ pic \in Slots THEN 0 ELSE NULL

\* REBASE_PICTURE(pic, new_ctx, old_ctx): the same index in the new pool,
\* NULL for a pointer that is NULL or outside the old pool.
REBASE_PICTURE(pic) == IF pic # NULL /\ pic \in Slots THEN pic ELSE NULL

\* UPDATE_PICTURE(pic): the working copy follows the source's working copy.
UPDATE_PICTURE(src) == IF src.buf # 0 THEN ff_mpeg_ref_picture(src) ELSE EmptyPic

\* A first block that leaves the copy in place when the initialisation fails.
UpdateFirstInit_KeepsCopy(s, s1, ok) ==
    IF s.context_initialized THEN [s |-> s, ret |-> 0]
    ELSE
    LET c == [s1 EXCEPT !.bitstream_buffer = FALSE,
                        !.bitstream_bytes = << >>,
                        !.allocated_bitstream_buffer_size = 0,
                        !.bitstream_buffer_size = 0, !.phase = "idle"]
    IN IF s1.context_initialized
       THEN LET r == ff_mpv_common_init(c, ok)
            IN IF r.ret < 0 THEN [s |-> c, ret |-> r.ret] ELSE r
       ELSE [s |-> c, ret |-> 0]

\* The first block: a destination that was never initialised is a copy of
\* the source, initialised again.
UpdateFirstInit(s, s1, ok) ==
    IF s.context_initialized THEN [s |-> s, ret |-> 0]
    ELSE
    LET c == [s1 EXCEPT !.bitstream_buffer = FALSE,
                        !.bitstream_bytes = << >>,
                        !.allocated_bitstream_buffer_size = 0,
                        !.bitstream_buffer_size = 0, !.phase = "idle"]
    IN IF s1.context_initialized
       THEN LET r == ff_mpv_common_init(c, ok)
            IN IF r.ret < 0
               THEN [s |-> [ZeroContext EXCEPT !.pix_fmt = s1.pix_fmt], ret |-> r.ret]
               ELSE r
       ELSE [s |-> c, ret |-> 0]

\* A second block that looks at the dimensions alone.
UpdateSize_IgnoresReinit(s, s1, fail) ==
    IF s.height # s1.height \/ s.width # s1.width
    THEN LET r == ff_mpv_common_frame_size_change(
                      [s EXCEPT !.height = s1.height, !.width = s1.width], fail)
         IN [s |-> r.s, ret |-> r.ret, why |-> r.why, resized |-> TRUE]
    ELSE [s |-> s, ret |-> 0, why |-> "ok", resized |-> FALSE]

\* The second block: the size change when the dimensions differ or a
\* reinit is pending.  Result: context, status, and whether it was attempted.
UpdateSize(s, s1, fail) ==
    IF s.height # s1.height \/ s.width # s1.width \/ s.context_reinit
    THEN LET r == ff_mpv_common_frame_size_change(
                      [s EXCEPT !.height = s1.height, !.width = s1.width], fail)
         IN [s |-> r.s, ret |-> r.ret, why |-> r.why, resized |-> TRUE]
    ELSE [s |-> s, ret |-> 0, why |-> "ok", resized |-> FALSE]

\* A pool copy that takes the source's buffers and keeps its own elsewhere.
UpdatePictures_KeepsOwn(s, s1) ==
    LET pool == IF s.has_picture
                THEN [i \in Slots |->
                         IF s1.has_picture /\ s1.picture[i].buf # 0
                         THEN ff_mpeg_ref_picture(s1.picture[i])
                         ELSE s.picture[i]]
                ELSE s.picture
        reb(r, p) == IF REBASE_PICTURE(p) = NULL THEN 0 ELSE s1.given[r]
    IN [s EXCEPT !.picture = pool,
                 !.current_picture = UPDATE_PICTURE(s1.current_picture),
                 !.last_picture    = UPDATE_PICTURE(s1.last_picture),
                 !.next_picture    = UPDATE_PICTURE(s1.next_picture),
                 !.last_picture_ptr    = REBASE_PICTURE(s1.last_picture_ptr),
                 !.current_picture_ptr = REBASE_PICTURE(s1.current_picture_ptr),
                 !.next_picture_ptr    = REBASE_PICTURE(s1.next_picture_ptr),
                 !.given = [r \in Roles |->
                               CASE r = "last" -> reb(r, s1.last_picture_ptr)
                                 [] r = "cur"  -> reb(r, s1.current_picture_ptr)
                                 [] r = "next" -> reb(r, s1.next_picture_ptr)],
                 !.droppable = s1.droppable]

\* The picture state: pool, working copies, rebased role pointers.
UpdatePictures(s, s1) ==
    LET pool == IF s.has_picture
                THEN [i \in Slots |->
                         IF s1.has_picture /\ s1.picture[i].buf # 0
                         THEN ff_mpeg_ref_picture(s1.picture[i])
                         ELSE ff_mpeg_unref_picture(s.picture[i])]
                ELSE s.picture
        reb(r, p) == IF REBASE_PICTURE(p) = NULL THEN 0 ELSE s1.given[r]
    IN [s EXCEPT !.picture = pool,
                 !.current_picture = UPDATE_PICTURE(s1.current_picture),
                 !.last_picture    = UPDATE_PICTURE(s1.last_picture),
                 !.next_picture    = UPDATE_PICTURE(s1.next_picture),
                 !.last_picture_ptr    = REBASE_PICTURE(s1.last_picture_ptr),
                 !.current_picture_ptr = REBASE_PICTURE(s1.current_picture_ptr),
                 !.next_picture_ptr    = REBASE_PICTURE(s1.next_picture_ptr),
                 !.given = [r \in Roles |->
                               CASE r = "last" -> reb(r, s1.last_picture_ptr)
                                 [] r = "cur"  -> reb(r, s1.current_picture_ptr)
                                 [] r = "next" -> reb(r, s1.next_picture_ptr)],
                 !.droppable = s1.droppable]

\* av_fast_malloc(&ptr, &size, min_size): an allocation that is large
\* enough is kept; otherwise it is freed and one of min_size + min_size / 16
\* + 32 bytes, not initialised, takes its place, or none (size 0) when the
\* allocation fails.
av_fast_malloc(ptr, bytes, size, min_size, ok) ==
    IF min_size <= size THEN [ptr |-> ptr, bytes |-> bytes, size |-> size]
    ELSE LET m == FFMAX(min_size + (min_size \div 16) + 32, min_size)
         IN IF ok THEN [ptr |-> TRUE, bytes |-> [i \in 1 .. m |-> -1], size |-> m]
            ELSE [ptr |-> FALSE, bytes |-> << >>, size |-> 0]

\* av_fast_padded_malloc(&ptr, &size, min_size) on success: av_fast_malloc
\* for min_size and the padding, zeroed when allocated anew, and the padding
\* after min_size zeroed when the allocation is kept.
av_fast_padded_malloc(ptr, bytes, size, min_size) ==
    LET want == min_size + AV_INPUT_BUFFER_PADDING_SIZE
        a == av_fast_malloc(ptr, bytes, size, want, TRUE)
    IN IF want <= size
       THEN [a EXCEPT !.bytes = [i \in 1 .. Len(bytes) |->
                                    IF i > min_size /\ i <= want THEN 0 ELSE bytes[i]]]
       ELSE [a EXCEPT !.bytes = [i \in 1 .. a.size |-> 0]]

\* memcpy(dst, src, n) followed by memset(dst + n, 0, pad), on the bytes the
\* allocation has.
CopyAndPad(dst, src, n, pad) ==
    [i \in 1 .. Len(dst) |->
        IF i <= n THEN src[i] ELSE IF i <= n + pad THEN 0 ELSE dst[i]]

\* A copy of the bitstream buffer that does not zero the padding.
UpdateBitstream_NoPadding(s, s1, ok) ==
    IF ~s1.bitstream_buffer THEN [s |-> s, ret |-> 0]
    ELSE
    LET grow == s1.bitstream_buffer_size + AV_INPUT_BUFFER_PADDING_SIZE
                    > s.allocated_bitstream_buffer_size
        a == IF grow
             THEN av_fast_malloc(s.bitstream_buffer, s.bitstream_bytes,
                                 s.allocated_bitstream_buffer_size,
                                 s1.allocated_bitstream_buffer_size, ok)
             ELSE [ptr |-> s.bitstream_buffer, bytes |-> s.bitstream_bytes,
                   size |-> s.allocated_bitstream_buffer_size]
        s2 == [s EXCEPT !.bitstream_buffer = a.ptr, !.bitstream_bytes = a.bytes,
                        !.allocated_bitstream_buffer_size = a.size]
    IN IF ~a.ptr
       THEN [s |-> [s2 EXCEPT !.bitstream_buffer_size = 0], ret |-> AVERROR(ENOMEM)]
       ELSE [s |-> [s2 EXCEPT !.bitstream_buffer_size = s1.bitstream_buffer_size,
                              !.bitstream_bytes =
                                  CopyAndPad(a.bytes, s1.bitstream_bytes,
                                             s1.bitstream_buffer_size, 0)],
             ret |-> 0]

\* The bitstream buffer: the destination's allocation is grown when the
\* source's bytes and the padding do not fit, the bytes are copied and the
\* padding after them is zeroed.  Result: context and status.
UpdateBitstream(s, s1, ok) ==
    IF ~s1.bitstream_buffer THEN [s |-> s, ret |-> 0]
    ELSE
    LET grow == s1.bitstream_buffer_size + AV_INPUT_BUFFER_PADDING_SIZE
                    > s.allocated_bitstream_buffer_size
        a == IF grow
             THEN av_fast_malloc(s.bitstream_buffer, s.bitstream_bytes,
                                 s.allocated_bitstream_buffer_size,
                                 s1.allocated_bitstream_buffer_size, ok)
             ELSE [ptr |-> s.bitstream_buffer, bytes |-> s.bitstream_bytes,
                   size |-> s.allocated_bitstream_buffer_size]
        s2 == [s EXCEPT !.bitstream_buffer = a.ptr, !.bitstream_bytes = a.bytes,
                        !.allocated_bitstream_buffer_size = a.size]
    IN IF ~a.ptr
       THEN [s |-> [s2 EXCEPT !.bitstream_buffer_size = 0], ret |-> AVERROR(ENOMEM)]
       ELSE [s |-> [s2 EXCEPT !.bitstream_buffer_size = s1.bitstream_buffer_size,
                              !.bitstream_bytes =
                                  CopyAndPad(a.bytes, s1.bitstream_bytes,
                                             s1.bitstream_buffer_size,
                                             AV_INPUT_BUFFER_PADDING_SIZE)],
             ret |-> 0]

\* s->coded_picture_number = s1->coded_picture_number
UpdateCounters(s, s1) == [s EXCEPT !.coded_picture_number = s1.coded_picture_number]

UpdateFailPoints == {"none", "common_init"} \cup (SizeFailPoints \ {"none"})
BitstreamFailPoints == {"none", "bitstream"}

\* ff_mpeg_update_thread_context(dst, src) with dst # src.  The frame
\* threading framework has copied the codec parameters (pixel format) to
\* dst before the call.  Result: context, status, whether the size change
\* was attempted.
ff_mpeg_update_thread_context(s0, s1, fail) ==
    LET s == [s0 EXCEPT !.pix_fmt = s1.pix_fmt]
        a == UpdateFirstInit(s, s1, fail # "common_init")
    IN IF a.ret < 0 THEN [s |-> a.s, ret |-> a.ret, why |-> "init", resized |-> FALSE]
       ELSE
       LET b == UpdateSize(a.s, s1, fail)
       IN IF b.ret < 0 THEN b
          ELSE
          LET d == UpdateBitstream(UpdatePictures(UpdateCounters(b.s, s1), s1), s1,
                                   fail # "bitstream")
          IN [s |-> d.s, ret |-> d.ret,
              why |-> IF d.ret < 0 THEN "bitstream" ELSE "ok",
              resized |-> b.resized]

\* ------------------------------------------------------------ the machine
\* Buffers after an operation: a name no slot or working copy holds any
\* more is released.
Collect(B, cs) ==
    [b \in BufIds |-> IF \E c \in Ctx : b \in LiveIds(cs[c]) THEN B[b] ELSE NoBuf]

\* Buffer names carry no meaning: after every operation they are renumbered
\* in the order in which the contexts mention them.
Mentions(s) ==
    [i \in 1 .. MAX_PICTURE_COUNT |-> s.picture[i - 1].buf]
        \o <<s.current_picture.buf, s.last_picture.buf, s.next_picture.buf,
             s.given["cur"], s.given["last"], s.given["next"]>>

RECURSIVE RenameFrom(_, _, _, _)
RenameFrom(m, j, f, n) ==
    IF j > Len(m) THEN f
    ELSE IF m[j] = 0 \/ f[m[j]] # 0 THEN RenameFrom(m, j + 1, f, n)
    ELSE RenameFrom(m, j + 1, [f EXCEPT ![m[j]] = n + 1], n + 1)

RenameMap(cs) ==
    RenameFrom(Mentions(cs[0]) \o Mentions(cs[1]), 1, [b \in 0 .. NBuf |-> 0], 0)

\* Coded picture numbers are kept up to their order: after every operation
\* the numbers above 0 that a context still holds (in its frames and in
\* its counter) are renumbered 1, 2, ... in increasing order.  Number 0, the
\* default of a frame and the number of the first picture, stays.
NumbersHeld(s) ==
    ({s.picture[i].coded_picture_number : i \in Slots}
        \cup {s.current_picture.coded_picture_number,
              s.last_picture.coded_picture_number,
              s.next_picture.coded_picture_number,
              s.coded_picture_number}) \ {0}

NumberRank(s, n) == Cardinality({m \in NumbersHeld(s) : m <= n})

RenamePic(s, pic, f) ==
    [pic EXCEPT !.buf = f[pic.buf],
                !.coded_picture_number = NumberRank(s, pic.coded_picture_number)]

RenameCtx(s, f) ==
    [s EXCEPT !.picture = [i \in Slots |-> RenamePic(s, s.picture[i], f)],
              !.coded_picture_number = NumberRank(s, s.coded_picture_number),
              !.current_picture = RenamePic(s, s.current_picture, f),
              !.last_picture = RenamePic(s, s.last_picture, f),
              !.next_picture = RenamePic(s, s.next_picture, f),
              !.given = [r \in Roles |-> f[s.given[r]]]]

\* The state after an operation that leaves contexts cs0 and buffers B0.
Settle(cs0, B0) ==
    \E cs \in {cs0} : \E f \in {RenameMap(cs)} : \E B \in {Collect(B0, cs)} :
       /\ ctx' = [c \in Ctx |-> RenameCtx(cs[c], f)]
       /\ bufs' = [b \in BufIds |->
                      IF \E a \in BufIds : f[a] = b
                      THEN B[CHOOSE a \in BufIds : f[a] = b]
                      ELSE NoBuf]

Other(c) == CHOOSE d \in Ctx : d # c

TypeOK ==
    /\ codec_id \in Codecs
    /\ hwaccel \in BOOLEAN
    /\ \A c \in Ctx :
        /\ ctx[c].current_picture_ptr \in Slots \cup {NULL}
        /\ ctx[c].last_picture_ptr \in Slots \cup {NULL}
        /\ ctx[c].next_picture_ptr \in Slots \cup {NULL}
        /\ \A i \in Slots : ctx[c].picture[i].buf \in BufIds \cup {0}

\* Context 0 after ff_mpv_decode_init and ff_mpv_common_init, context 1
\* not yet initialised, no buffer allocated.
InitContexts ==
    /\ ctx = [c \in Ctx |->
                IF c = 0
                THEN ff_mpv_common_init(
                         [ZeroContext EXCEPT !.width = InitGeometry.w,
                                             !.height = InitGeometry.h,
                                             !.pix_fmt = InitGeometry.fmt], TRUE).s
                ELSE ZeroContext]
    /\ bufs = [b \in BufIds |-> NoBuf]
    /\ op = [name |-> "init", c |-> 0, src |-> 0, ret |-> 0, why |-> "ok", nref |-> 0,
             resized |-> FALSE, retry |-> FALSE, pending |-> FALSE]

\* No macroblock is being reconstructed.
NoMb == [fn |-> "none"]

Init ==
    /\ codec_id = AV_CODEC_ID_MPEG4
    /\ hwaccel = FALSE
    /\ InitContexts
    /\ mb = NoMb

\* The header of a picture is parsed (pict_type, droppable) and
\* ff_mpv_frame_start is called.  Callers start frames only on a context
\* that is initialised and has no reinit pending, in the SETUP state.
\* op.retry records that the call follows a failed ff_mpv_frame_start and
\* that none of its own allocations fails.
FrameStart(c, t, d, fail) ==
    /\ ctx[c].context_initialized
    /\ ~ctx[c].context_reinit
    /\ \E r \in {ff_mpv_frame_start([ctx[c] EXCEPT !.pict_type = t, !.droppable = d],
                                      bufs, NameIds(ctx[Other(c)]), TRUE, fail,
                                      hwaccel, codec_id)} :
          /\ Settle([ctx EXCEPT ![c] = [r.s EXCEPT !.phase =
                                         IF r.ret = 0 THEN "decoding" ELSE "idle"]], r.B)
          /\ op' = [name |-> "frame_start", c |-> c, src |-> c, ret |-> r.ret,
                    why |-> r.why, nref |-> r.nref, resized |-> FALSE,
                    retry |-> (/\ op.name = "frame_start" /\ op.c = c /\ op.ret < 0
                              /\ fail = "none"
                              /\ av_image_check_size(ctx[c].width, ctx[c].height) = 0),
                    pending |-> FALSE]
    /\ UNCHANGED <<codec_id, hwaccel, mb>>

\* The caller installs a geometry and calls ff_mpv_common_frame_size_change
\* (decoders do so on a context they have initialised).
FrameSizeChange(c, g, fail) ==
    /\ ctx[c].context_initialized
    /\ \E r \in {ff_mpv_common_frame_size_change(
                       [ctx[c] EXCEPT !.width = g.w, !.height = g.h, !.pix_fmt = g.fmt],
                       fail)} :
          /\ Settle([ctx EXCEPT ![c] = [r.s EXCEPT !.phase = "idle"]], bufs)
          /\ op' = [name |-> "frame_size_change", c |-> c, src |-> c, ret |-> r.ret,
                    why |-> r.why, nref |-> 0, resized |-> TRUE, retry |-> FALSE, pending |-> FALSE]
    /\ UNCHANGED <<codec_id, hwaccel, mb>>

\* op.nref records how many pool slots held a buffer before the flush.
Flush(c) ==
    /\ Settle([ctx EXCEPT ![c] = [ff_mpeg_flush(ctx[c]) EXCEPT !.phase = "idle"]], bufs)
    /\ op' = [name |-> "flush", c |-> c, src |-> c, ret |-> 0,
              why |-> IF ctx[c].has_picture THEN "ok" ELSE "nopool",
              nref |-> Cardinality({i \in Slots : ctx[c].picture[i].buf # 0}),
              resized |-> FALSE, retry |-> FALSE, pending |-> FALSE]
    /\ UNCHANGED <<codec_id, hwaccel, mb>>

\* ff_mpeg_update_thread_context(dst, src).
UpdateThreadContext(dst, src, fail) ==
    /\ IF dst = src
       THEN /\ op' = [name |-> "update_thread_context", c |-> dst, src |-> src, ret |-> 0,
                      why |-> "ok", nref |-> 0, resized |-> FALSE, retry |-> FALSE,
                      pending |-> ctx[dst].context_reinit]
            /\ UNCHANGED <<ctx, bufs>>
       ELSE \E r \in {ff_mpeg_update_thread_context(ctx[dst], ctx[src], fail)} :
               /\ Settle([ctx EXCEPT ![dst] = [r.s EXCEPT !.phase = "idle"]], bufs)
               /\ op' = [name |-> "update_thread_context", c |-> dst, src |-> src,
                         ret |-> r.ret, why |-> r.why, nref |-> 0,
                         resized |-> r.resized, retry |-> FALSE,
                         pending |-> ctx[dst].context_reinit]
    /\ UNCHANGED <<codec_id, hwaccel, mb>>

\* The decoder of the current picture finishes a macroblock row: it has
\* advanced to column x of row y and calls ff_mpv_report_decode_progress.
DecodeRow(c, x, y, quiet) ==
    /\ ctx[c].phase = "decoding"
    /\ \E s \in {[ctx[c] EXCEPT !.mb_x = x, !.mb_y = y]} :
          /\ Settle([ctx EXCEPT ![c] = s], ff_mpv_report_decode_progress(s, bufs, quiet))
          /\ op' = [name |-> "report_decode_progress", c |-> c, src |-> c, ret |-> 0,
                    why |-> IF quiet THEN "quiet" ELSE "ok", nref |-> 0,
                    resized |-> FALSE, retry |-> FALSE, pending |-> FALSE]
    /\ UNCHANGED <<codec_id, hwaccel, mb>>

\* ff_mpv_frame_end, called once the picture is reconstructed; a second
\* call publishes the same picture again.
FrameEnd(c) ==
    /\ ctx[c].phase \in {"decoding", "ended"}
    /\ Settle([ctx EXCEPT ![c].phase = "ended"], ff_mpv_frame_end(ctx[c], bufs))
    /\ op' = [name |-> "frame_end", c |-> c, src |-> c, ret |-> 0,
              why |-> IF ctx[c].phase = "ended" THEN "again" ELSE "ok", nref |-> 0,
              resized |-> FALSE, retry |-> FALSE, pending |-> FALSE]
    /\ UNCHANGED <<codec_id, hwaccel, mb>>

\* Byte i of the n bytes a decoder stashes: never 0, and different for
\* different n.
PacketByte(n, i) == 1 + ((n + i) % 255)

\* The decoder stashes n bytes of a packed stream in its bitstream buffer.
SetBitstream(c, n) ==
    /\ ctx[c].phase = "decoding"
    /\ ctx[c].bitstream_buffer_size # n
    /\ \E a \in {av_fast_padded_malloc(ctx[c].bitstream_buffer, ctx[c].bitstream_bytes,
                                        ctx[c].allocated_bitstream_buffer_size, n)} :
          Settle([ctx EXCEPT ![c].bitstream_buffer = a.ptr,
                             ![c].bitstream_bytes =
                                 [i \in 1 .. a.size |->
                                     IF i <= n THEN PacketByte(n, i) ELSE a.bytes[i]],
                             ![c].allocated_bitstream_buffer_size = a.size,
                             ![c].bitstream_buffer_size = n], bufs)
    /\ op' = [name |-> "set_bitstream", c |-> c, src |-> c, ret |-> 0, why |-> "ok",
              nref |-> 0, resized |-> FALSE, retry |-> FALSE, pending |-> FALSE]
    /\ UNCHANGED <<codec_id, hwaccel, mb>>

\* The thread of context c waits until row y of a reference picture is
\* decoded (ff_thread_await_progress returns once the counter reaches y).
AwaitProgress(c, r, y) ==
    /\ \E pic \in {IF r = "last" THEN ctx[c].last_picture ELSE ctx[c].next_picture} :
          /\ pic.buf # 0
          /\ bufs[pic.buf].progress[1] >= y
    /\ op' = [name |-> "await_progress", c |-> c, src |-> c, ret |-> 0, why |-> "ok",
              nref |-> y, resized |-> FALSE, retry |-> FALSE, pending |-> FALSE]
    /\ UNCHANGED <<ctx, bufs, codec_id, hwaccel, mb>>

\* A reallocation failure is tried with the geometries that reach it.
SizeChangeInputs ==
    (Geometries \X {"none"})
        \cup ({GeomA, GeomB, GeomUnset} \X {"init_context_frame"})
        \cup ({GeomA, GeomB} \X {"init_duplicate_contexts"})

\* One decoding context: frames are started, the size changes, the decoder
\* is flushed.
Next ==
    \/ \E t \in PictTypes, d \in BOOLEAN, fail \in AllocFailPoints :
           FrameStart(0, t, d, fail)
    \/ \E in \in SizeChangeInputs :
           FrameSizeChange(0, in[1], in[2])
    \/ Flush(0)

Spec == Init /\ [][Next]_vars

\* The dummy fill under every codec, with and without a hardware
\* accelerator, for pictures with and without chroma planes.
InitFill ==
    /\ codec_id \in Codecs
    /\ hwaccel \in BOOLEAN
    /\ InitContexts
    /\ mb = NoMb

FillGeometries == {GeomA, GeomB, GeomGray}

NextFill ==
    \/ \E t \in PictTypes : FrameStart(0, t, FALSE, "none")
    \/ \E g \in FillGeometries : FrameSizeChange(0, g, "none")
    \/ Flush(0)

SpecFill == InitFill /\ [][NextFill]_vars

\* Frame threading: context 0 decodes, context 1 is the next thread's
\* context, updated from context 0; either can have its size changed, and
\* context 0 can be flushed.
\* Context 0 decodes P pictures at either of two sizes.
SourceSizeInputs == {GeomA, GeomB} \X {"none"}
ThreadPictTypes == {AV_PICTURE_TYPE_P}

NextThread ==
    \/ \E t \in ThreadPictTypes : FrameStart(0, t, FALSE, "none")
    \/ \E in \in SourceSizeInputs : FrameSizeChange(0, in[1], in[2])
    \/ \E in \in SizeChangeInputs : FrameSizeChange(1, in[1], in[2])
    \/ \E fail \in UpdateFailPoints : UpdateThreadContext(1, 0, fail)
    \/ \E c \in Ctx : UpdateThreadContext(c, c, "none")
    \/ Flush(0)

SpecThread == Init /\ [][NextThread]_vars

\* Decoding of pictures: context 0 starts a picture, reports its rows,
\* ends it, stashes bitstream bytes and is flushed; context 1 is flushed
\* before it has a pool.
MaxMbX == 1
MaxMbY == 1
MaxBitstream == 1
DecodePictTypes == {AV_PICTURE_TYPE_P, AV_PICTURE_TYPE_B}
DecodeFailPoints == {"none", "alloc_cur"}

NextDecode ==
    \/ \E t \in DecodePictTypes, fail \in DecodeFailPoints :
           FrameStart(0, t, FALSE, fail)
    \/ \E y \in 0 .. MaxMbY, quiet \in BOOLEAN : DecodeRow(0, MaxMbX, y, quiet)
    \/ FrameEnd(0)
    \/ SetBitstream(0, MaxBitstream)
    \/ \E c \in Ctx : Flush(c)

SpecDecode == Init /\ [][NextDecode]_vars

\* Context 0 decodes P pictures, stashes a short or a long run of bytes and
\* is flushed; context 1 is updated from it, and the growth of its
\* bitstream buffer may fail.
BigBitstream == 80
BitstreamSizes == {MaxBitstream, BigBitstream}

NextBitstream ==
    \/ FrameStart(0, AV_PICTURE_TYPE_P, FALSE, "none")
    \/ \E n \in BitstreamSizes : SetBitstream(0, n)
    \/ \E fail \in BitstreamFailPoints : UpdateThreadContext(1, 0, fail)
    \/ Flush(0)

SpecBitstream == Init /\ [][NextBitstream]_vars

\* Pictures of every type, droppable or not, are started and ended.
NextEnd ==
    \/ \E t \in PictTypes, d \in BOOLEAN : FrameStart(0, t, d, "none")
    \/ FrameEnd(0)

SpecEnd == Init /\ [][NextEnd]_vars

\* Progress across threads: context 0 decodes reference pictures and
\* reports their rows; context 1, updated from context 0 once the picture is
\* set up, waits on the pictures it shares with it.
NextProgress ==
    \/ FrameStart(0, AV_PICTURE_TYPE_P, FALSE, "none")
    \/ \E y \in 0 .. MaxMbY : DecodeRow(0, MaxMbX, y, FALSE)
    \/ FrameEnd(0)
    \/ (ctx[0].phase = "decoding" /\ UpdateThreadContext(1, 0, "none"))
    \/ \E r \in {"last", "next"}, y \in 0 .. MaxMbY : AwaitProgress(1, r, y)

SpecProgress == Init /\ [][NextProgress]_vars

\* ------------------------------------------------ macroblock functions
\* x >> n and x << n on int (>> of a negative value rounds down).
Asr(x, n) == x \div (2 ^ n)
Shl(x, n) == x * (2 ^ n)
\* (unsigned)a > b on 32-bit ints, b converted to unsigned too: a negative
\* value is above every value that is not negative.
UnsignedGt(a, b) == IF (a < 0) = (b < 0) THEN a > b ELSE a < 0
FFMIN(a, b) == IF a < b THEN a ELSE b
av_clip(a, amin, amax) == IF a < amin THEN amin ELSE IF a > amax THEN amax ELSE a
av_clip_uint8(a) == av_clip(a, 0, 255)
\* !!x
NotNot(x) == IF x # 0 THEN 1 ELSE 0

\* ---------------------------------------------------------------- add_dct
\* idsp.idct_add for a block whose only coefficient is the DC one: the
\* residual (dc + 4) >> 3 is added to every sample, which is clipped.
idct_add(dest, block) ==
    [p \in DOMAIN dest |-> av_clip_uint8(dest[p] + Asr(block[1] + 4, 3))]

\* The residual is added for blocks with a last index above zero only.
add_dct_AboveZero(block_last_index, block, i, dest) ==
    IF block_last_index[i] > 0 THEN idct_add(dest, block) ELSE dest

add_dct(block_last_index, block, i, dest) ==
    IF block_last_index[i] >= 0 THEN idct_add(dest, block) ELSE dest

\* The inputs of add_dct: block i of two, its last index, its DC
\* coefficient, and two samples of the destination.
LastIndexes == {-1, 0, 1}
DcCoefficients == {-2048, -12, 0, 12, 2040}
Samples == {0, 128, 255}

InitDct ==
    /\ codec_id = AV_CODEC_ID_MPEG4
    /\ hwaccel = FALSE
    /\ InitContexts
    /\ \E i \in 1 .. 2, l \in LastIndexes, dc \in DcCoefficients,
          d1 \in Samples, d2 \in Samples :
          mb = [fn |-> "input", i |-> i,
                block_last_index |-> [j \in 1 .. 2 |-> IF j = i THEN l ELSE 0],
                block |-> <<dc>>, dest |-> <<d1, d2>>, dest0 |-> <<d1, d2>>]

AddDct ==
    /\ mb.fn = "input"
    /\ mb' = [mb EXCEPT !.fn = "add_dct",
                        !.dest = add_dct(mb.block_last_index, mb.block, mb.i, mb.dest)]
    /\ UNCHANGED <<ctx, bufs, op, codec_id, hwaccel>>

NextDct == AddDct

SpecDct == InitDct /\ [][NextDct]_vars

\* ------------------------------------------- lowres motion compensation
\* a / b on int (the quotient is truncated towards zero), for b > 0.
CDiv(a, b) == IF a >= 0 THEN a \div b ELSE -((-a) \div b)
\* x & mask for a mask 2^k - 1, on two's complement.
BitAnd(x, mask) == x % (mask + 1)
\* x | b for b in {0, 1}.
BitOr1(x, b) == IF b = 1 /\ x % 2 = 0 THEN x + 1 ELSE x

\* ff_h263_round_chroma: the sum of four luma vectors as one chroma vector.
h263_chroma_roundtab == <<0, 0, 0, 1, 1, 1, 1, 1, 1, 1, 1, 1, 1, 1, 2, 2>>
ff_h263_round_chroma(x) ==
    h263_chroma_roundtab[BitAnd(x, 15) + 1] + 2 * Asr(x, 4)

\* The edge positions of a picture of mb_width by mb_height macroblocks.
EdgePos(mbs) == mbs * 16

\* The edge test with signed comparisons.
EdgeTest_Signed(src_x, src_y, sx, sy, w, h, h_edge_pos, v_edge_pos) ==
    \/ src_x > FFMAX(h_edge_pos - NotNot(sx) - w, 0)
    \/ src_y > FFMAX(v_edge_pos - NotNot(sy) - h, 0)

\* The test that sends a fetch at (src_x, src_y) of a block of w by h
\* samples, with phases sx and sy, through the edge emulation.
EdgeTest(src_x, src_y, sx, sy, w, h, h_edge_pos, v_edge_pos) ==
    \/ UnsignedGt(src_x, FFMAX(h_edge_pos - NotNot(sx) - w, 0))
    \/ UnsignedGt(src_y, FFMAX(v_edge_pos - NotNot(sy) - h, 0))

\* hpel_motion_lowres: the fetch of one luma block of w by h samples whose
\* unmoved position is (src_x0, src_y0).  Result: the position, the
\* phases, the block and the edges, and whether the edge emulation ran.
hpel_motion_lowres(lowres, quarter_sample, field_based, src_x0, src_y0, h_edge_pos, v_edge_pos, w, h, motion_x0, motion_y0) ==
    LET s_mask == Shl(2, lowres) - 1
        motion_x == IF quarter_sample THEN CDiv(motion_x0, 2) ELSE motion_x0
        motion_y == IF quarter_sample THEN CDiv(motion_y0, 2) ELSE motion_y0
        sx == BitAnd(motion_x, s_mask)
        sy == BitAnd(motion_y, s_mask)
        src_x == src_x0 + Asr(motion_x, lowres + 1)
        src_y == src_y0 + Asr(motion_y, lowres + 1)
    IN [src_x |-> src_x, src_y |-> src_y, sx |-> sx, sy |-> sy, w |-> w, h |-> h,
        h_edge_pos |-> h_edge_pos, v_edge_pos |-> Asr(v_edge_pos, field_based),
        emu |-> EdgeTest(src_x, src_y, sx, sy, w, h,
                         h_edge_pos, Asr(v_edge_pos, field_based))]

\* mpeg_motion_lowres: one vector applied to the three planes of a
\* macroblock, in.h luma rows high.  Result: the luma fetch and the chroma
\* fetch (position, phases, block, and the edges of the plane), and whether
\* the edge emulation ran; it runs for the three planes together.
mpeg_motion_lowres(in) ==
    LET lowres == in.lowres
        field_based == in.field_based
        op_index == FFMIN(lowres - 1 + in.chroma_x_shift, 3)
        block_s == Asr(8, lowres)
        s_mask == Shl(2, lowres) - 1
        h_edge_pos == Asr(EdgePos(in.mb_width), lowres)
        v_edge_pos == Asr(EdgePos(in.mb_height), lowres)
        motion_x == IF in.quarter_sample THEN CDiv(in.motion_x, 2) ELSE in.motion_x
        my0 == IF in.quarter_sample THEN CDiv(in.motion_y, 2) ELSE in.motion_y
        motion_y == IF field_based = 1
                    THEN my0 + (in.bottom_field - in.field_select) * (Shl(1, lowres) - 1)
                    ELSE my0
        sx == BitAnd(motion_x, s_mask)
        sy == BitAnd(motion_y, s_mask)
        src_x == in.mb_x * 2 * block_s + Asr(motion_x, lowres + 1)
        src_y == Asr(in.mb_y * 2 * block_s, field_based) + Asr(motion_y, lowres + 1)
        uv == IF in.out_format = "FMT_H263"
              THEN [sx |-> BitOr1(BitAnd(Asr(motion_x, 1), s_mask), BitAnd(sx, 1)),
                    sy |-> BitOr1(BitAnd(Asr(motion_y, 1), s_mask), BitAnd(sy, 1)),
                    src_x |-> Asr(src_x, 1),
                    src_y |-> Asr(src_y, 1)]
              ELSE IF in.out_format = "FMT_H261"
              THEN LET mx == CDiv(motion_x, 4)
                       my == CDiv(motion_y, 4)
                   IN [sx |-> BitAnd(2 * mx, s_mask),
                       sy |-> BitAnd(2 * my, s_mask),
                       src_x |-> in.mb_x * block_s + Asr(mx, lowres),
                       src_y |-> in.mb_y * block_s + Asr(my, lowres)]
              ELSE IF in.chroma_y_shift = 1
              THEN LET mx == CDiv(motion_x, 2)
                       my == CDiv(motion_y, 2)
                   IN [sx |-> BitAnd(mx, s_mask),
                       sy |-> BitAnd(my, s_mask),
                       src_x |-> in.mb_x * block_s + Asr(mx, lowres + 1),
                       src_y |-> Asr(in.mb_y * block_s, field_based) + Asr(my, lowres + 1)]
              ELSE IF in.chroma_x_shift = 1
              THEN LET mx == CDiv(motion_x, 2)
                   IN [sx |-> BitAnd(mx, s_mask),
                       sy |-> BitAnd(motion_y, s_mask),
                       src_x |-> in.mb_x * block_s + Asr(mx, lowres + 1),
                       src_y |-> src_y]
              ELSE [sx |-> BitAnd(motion_x, s_mask),
                    sy |-> BitAnd(motion_y, s_mask),
                    src_x |-> src_x,
                    src_y |-> src_y]
        hc == IF in.chroma_y_shift = 1 THEN Asr(in.h + 1 - in.bottom_field, 1) ELSE in.h
        emu == \/ EdgeTest(src_x, src_y, sx, sy, 2 * block_s, in.h,
                           h_edge_pos, Asr(v_edge_pos, field_based))
               \/ uv.src_y < 0
    IN [luma |-> [src_x |-> src_x, src_y |-> src_y, sx |-> sx, sy |-> sy,
                  w |-> 2 * block_s, h |-> in.h,
                  h_edge_pos |-> h_edge_pos,
                  v_edge_pos |-> Asr(v_edge_pos, field_based)],
        chroma |-> [src_x |-> uv.src_x, src_y |-> uv.src_y, sx |-> uv.sx, sy |-> uv.sy,
                    w |-> Asr(8, op_index), h |-> hc,
                    h_edge_pos |-> Asr(h_edge_pos, in.chroma_x_shift),
                    v_edge_pos |-> Asr(Asr(v_edge_pos, in.chroma_y_shift), field_based)],
        emu |-> emu]

\* chroma_4mv_motion_lowres: the chroma fetch of a macroblock with four
\* luma vectors, whose sum is (mx0, my0).
chroma_4mv_motion_lowres(in) ==
    LET lowres == in.lowres
        block_s == Asr(8, lowres)
        s_mask == Shl(2, lowres) - 1
        h_edge_pos == Asr(EdgePos(in.mb_width), lowres + 1)
        v_edge_pos == Asr(EdgePos(in.mb_height), lowres + 1)
        mx == ff_h263_round_chroma(IF in.quarter_sample THEN CDiv(in.motion_x, 2)
                                   ELSE in.motion_x)
        my == ff_h263_round_chroma(IF in.quarter_sample THEN CDiv(in.motion_y, 2)
                                   ELSE in.motion_y)
        sx == BitAnd(mx, s_mask)
        sy == BitAnd(my, s_mask)
        src_x == in.mb_x * block_s + Asr(mx, lowres + 1)
        src_y == in.mb_y * block_s + Asr(my, lowres + 1)
    IN [src_x |-> src_x, src_y |-> src_y, sx |-> sx, sy |-> sy,
        w |-> block_s, h |-> block_s,
        h_edge_pos |-> h_edge_pos, v_edge_pos |-> v_edge_pos,
        emu |-> EdgeTest(src_x, src_y, sx, sy, block_s, block_s, h_edge_pos, v_edge_pos)]

\* The inputs of the fetches: the lowres factor, the picture size in
\* macroblocks, the macroblock, the vector, the field mode (field_based,
\* bottom_field, field_select) and the format with its chroma shifts.
LowresFactors == {1, 2}
MbCounts == {1, 2}
Motions == {-8, -4, -1, 0, 1, 4, 8}
FrameMode == <<0, 0, 0>>
FieldModes == {FrameMode, <<1, 0, 0>>, <<1, 1, 0>>, <<1, 0, 1>>}
Layout420 == <<"FMT_H263", 1, 1>>
LayoutH261 == <<"FMT_H261", 1, 1>>
Layouts == {Layout420, LayoutH261, <<"FMT_MPEG1", 1, 1>>,
            <<"FMT_MPEG1", 1, 0>>, <<"FMT_MPEG1", 0, 0>>}

FetchInput(for, lowres, mw, mh, x, y, mvx, mvy, qs, fm, lay, i) ==
    [fn |-> "input", for |-> for, lowres |-> lowres,
     mb_width |-> mw, mb_height |-> mh, mb_x |-> x, mb_y |-> y,
     motion_x |-> mvx, motion_y |-> mvy, quarter_sample |-> qs,
     field_based |-> fm[1], bottom_field |-> fm[2], field_select |-> fm[3],
     h |-> IF fm[1] = 1 THEN Asr(8, lowres) ELSE 2 * Asr(8, lowres),
     out_format |-> lay[1], chroma_x_shift |-> lay[2], chroma_y_shift |-> lay[3],
     i |-> i]

\* hpel_motion_lowres takes one of four luma blocks; mpeg_motion_lowres
\* takes a field mode and a layout.  H.261 has no fields, and vectors of
\* whole samples only; quarter-sample vectors are those of MPEG-4, whose
\* format is FMT_H263.
FetchCalls ==
    ({"hpel_motion_lowres"} \X {FrameMode} \X {Layout420} \X (0 .. 3))
      \cup ({"mpeg_motion_lowres"} \X FieldModes \X (Layouts \ {LayoutH261}) \X {0})
      \cup ({"mpeg_motion_lowres"} \X {FrameMode} \X {LayoutH261} \X {0})
      \cup ({"chroma_4mv_motion_lowres"} \X {FrameMode} \X {Layout420} \X {0})

FetchCallOK(call, mvx, mvy, qs) ==
    /\ qs => call[3][1] = "FMT_H263"
    /\ call[3] = LayoutH261 => (mvx % 2 = 0 /\ mvy % 2 = 0)

InitFetch ==
    /\ codec_id = AV_CODEC_ID_MPEG4
    /\ hwaccel = FALSE
    /\ InitContexts
    /\ \E l \in LowresFactors, mw \in MbCounts, mh \in MbCounts :
         \E x \in 0 .. mw - 1, y \in 0 .. mh - 1 :
           \E mvx \in Motions, mvy \in Motions, qs \in BOOLEAN, call \in FetchCalls :
              /\ FetchCallOK(call, mvx, mvy, qs)
              /\ mb = FetchInput(call[1], l, mw, mh, x, y, mvx, mvy, qs,
                                 call[2], call[3], call[4])

\* MPV_motion_lowres, MV_TYPE_8X8: luma block i of the macroblock.
HpelMotionLowres ==
    /\ mb.fn = "input" /\ mb.for = "hpel_motion_lowres"
    /\ \E block_s \in {Asr(8, mb.lowres)} :
          mb' = [fn |-> "hpel_motion_lowres", in |-> mb,
                 out |-> hpel_motion_lowres(
                            mb.lowres, mb.quarter_sample, 0,
                            (2 * mb.mb_x + BitAnd(mb.i, 1)) * block_s,
                            (2 * mb.mb_y + Asr(mb.i, 1)) * block_s,
                            Asr(EdgePos(mb.mb_width), mb.lowres),
                            Asr(EdgePos(mb.mb_height), mb.lowres),
                            block_s, block_s, mb.motion_x, mb.motion_y)]
    /\ UNCHANGED <<ctx, bufs, op, codec_id, hwaccel>>

\* MPV_motion_lowres, MV_TYPE_16X16 and MV_TYPE_FIELD of a frame picture.
MpegMotionLowres ==
    /\ mb.fn = "input" /\ mb.for = "mpeg_motion_lowres"
    /\ mb' = [fn |-> "mpeg_motion_lowres", in |-> mb, out |-> mpeg_motion_lowres(mb)]
    /\ UNCHANGED <<ctx, bufs, op, codec_id, hwaccel>>

\* MPV_motion_lowres, MV_TYPE_8X8: the chroma blocks, fetched with the sum
\* of the vectors of the four luma blocks (here four equal vectors).
Chroma4mvMotionLowres ==
    /\ mb.fn = "input" /\ mb.for = "chroma_4mv_motion_lowres"
    /\ mb' = [fn |-> "chroma_4mv_motion_lowres", in |-> mb,
              out |-> chroma_4mv_motion_lowres(
                          [mb EXCEPT !.motion_x = 4 * mb.motion_x,
                                     !.motion_y = 4 * mb.motion_y])]
    /\ UNCHANGED <<ctx, bufs, op, codec_id, hwaccel>>

NextFetch ==
    \/ HpelMotionLowres
    \/ MpegMotionLowres
    \/ Chroma4mvMotionLowres

SpecFetch == InitFetch /\ [][NextFetch]_vars

\* -------------------------------------------------- lowest_referenced_row
\* The largest and the smallest vertical component of the first mvs
\* vectors of direction dir, from INT_MIN and INT_MAX on.
RECURSIVE MyMax(_, _, _)
MyMax(mv, i, mvs) ==
    IF i >= mvs THEN -INT_MAX - 1 ELSE FFMAX(MyMax(mv, i + 1, mvs), mv[i + 1][2])
RECURSIVE MyMin(_, _, _)
MyMin(mv, i, mvs) ==
    IF i >= mvs THEN INT_MAX ELSE FFMIN(MyMin(mv, i + 1, mvs), mv[i + 1][2])

\* The row without the rounding up to whole macroblock rows.
lowest_referenced_row_RoundsDown(s, dir) ==
    LET qpel_shift == IF s.quarter_sample THEN 0 ELSE 1
        mvs == CASE s.mv_type = "MV_TYPE_16X16" -> 1
                 [] s.mv_type = "MV_TYPE_16X8"  -> 2
                 [] s.mv_type = "MV_TYPE_8X8"   -> 4
                 [] OTHER -> 0
    IN IF s.picture_structure # "PICT_FRAME" \/ s.mcsel \/ mvs = 0
       THEN s.mb_height - 1
       ELSE LET my_max == MyMax(s.mv[dir], 0, mvs)
                my_min == MyMin(s.mv[dir], 0, mvs)
                off == Asr(Shl(FFMAX(-my_min, my_max), qpel_shift), 6)
            IN av_clip(s.mb_y + off, 0, s.mb_height - 1)

\* The row computed from the vectors although mcsel is on.
lowest_referenced_row_IgnoresMcsel(s, dir) ==
    LET qpel_shift == IF s.quarter_sample THEN 0 ELSE 1
        mvs == CASE s.mv_type = "MV_TYPE_16X16" -> 1
                 [] s.mv_type = "MV_TYPE_16X8"  -> 2
                 [] s.mv_type = "MV_TYPE_8X8"   -> 4
                 [] OTHER -> 0
    IN IF s.picture_structure # "PICT_FRAME" \/ mvs = 0
       THEN s.mb_height - 1
       ELSE LET my_max == MyMax(s.mv[dir], 0, mvs)
                my_min == MyMin(s.mv[dir], 0, mvs)
                off == Asr(Shl(FFMAX(-my_min, my_max), qpel_shift) + 63, 6)
            IN av_clip(s.mb_y + off, 0, s.mb_height - 1)

lowest_referenced_row(s, dir) ==
    LET qpel_shift == IF s.quarter_sample THEN 0 ELSE 1
        mvs == CASE s.mv_type = "MV_TYPE_16X16" -> 1
                 [] s.mv_type = "MV_TYPE_16X8"  -> 2
                 [] s.mv_type = "MV_TYPE_8X8"   -> 4
                 [] OTHER -> 0
    IN IF s.picture_structure # "PICT_FRAME" \/ s.mcsel \/ mvs = 0
       THEN s.mb_height - 1
       ELSE LET my_max == MyMax(s.mv[dir], 0, mvs)
                my_min == MyMin(s.mv[dir], 0, mvs)
                off == Asr(Shl(FFMAX(-my_min, my_max), qpel_shift) + 63, 6)
            IN av_clip(s.mb_y + off, 0, s.mb_height - 1)

\* The inputs: the geometry, the picture structure, mcsel, the precision,
\* the picture height in macroblocks and the row, and the vectors of the
\* direction asked for: vertical component a, but b for vector k; the
\* vectors of the other direction are zero.
MvTypes == {"MV_TYPE_16X16", "MV_TYPE_16X8", "MV_TYPE_8X8", "MV_TYPE_FIELD",
            "MV_TYPE_DMV"}
PictureStructures == {"PICT_FRAME", "PICT_TOP_FIELD"}
VerticalMotions == {-65, -33, -1, 0, 1, 32, 33, 65}
MaxMbHeight == 3

InitRow ==
    /\ codec_id = AV_CODEC_ID_MPEG4
    /\ hwaccel = FALSE
    /\ InitContexts
    /\ \E t \in MvTypes, ps \in PictureStructures, mcsel \in BOOLEAN, qs \in BOOLEAN :
         \E mh \in 1 .. MaxMbHeight, dir \in 0 .. 1 :
           \E y \in 0 .. mh - 1, a \in VerticalMotions, b \in VerticalMotions, k \in {1, 4} :
              mb = [fn |-> "input", mv_type |-> t, picture_structure |-> ps,
                    mcsel |-> mcsel, quarter_sample |-> qs,
                    mb_height |-> mh, mb_y |-> y, dir |-> dir,
                    mv |-> [d \in 0 .. 1 |->
                              [i \in 1 .. 4 |->
                                  IF d # dir THEN <<0, 0>>
                                  ELSE IF i = k THEN <<0, b>> ELSE <<0, a>>]]]

LowestReferencedRow ==
    /\ mb.fn = "input"
    /\ mb' = [fn |-> "lowest_referenced_row", in |-> mb,
              out |-> lowest_referenced_row(mb, mb.dir)]
    /\ UNCHANGED <<ctx, bufs, op, codec_id, hwaccel>>

NextRow == LowestReferencedRow

SpecRow == InitRow /\ [][NextRow]_vars

\* ------------------------------------------- MPV_motion_lowres, dual prime
\* One call of mpeg_motion_lowres: its arguments after the destination.
MotionCall(field_based, bottom_field, field_select, ref_picture, pix_op, mv, h, mb_y) ==
    [field_based |-> field_based, bottom_field |-> bottom_field,
     field_select |-> field_select, ref_picture |-> ref_picture,
     pix_op |-> pix_op, motion_x |-> mv[1], motion_y |-> mv[2],
     h |-> h, mb_y |-> mb_y]

\* j ^ i for two bits
BitXor(j, i) == (j + i) % 2

\* i + 1 as a picture structure: PICT_TOP_FIELD is 1, PICT_BOTTOM_FIELD is 2.
PictureOfParity(i) == IF i = 0 THEN "PICT_TOP_FIELD" ELSE "PICT_BOTTOM_FIELD"

\* The loop of a frame picture from pass i on: the calls it makes.
RECURSIVE DmvFrameLoop(_, _, _, _, _)
DmvFrameLoop(s, dir, i, ref_picture, pix_op) ==
    IF i >= 2 THEN << >>
    ELSE LET block_s == Asr(8, s.lowres)
             call(j) == MotionCall(1, j, BitXor(j, i), ref_picture, pix_op,
                                   s.mv[dir][2 * i + j + 1], block_s, s.mb_y)
         IN <<call(0), call(1)>>
                \o DmvFrameLoop(s, dir, i + 1, ref_picture, "avg_h264_chroma_pixels_tab")

\* A field loop that reads the second pass from the current picture in
\* either field.
RECURSIVE DmvFieldLoop_AlwaysCurrent(_, _, _, _, _)
DmvFieldLoop_AlwaysCurrent(s, dir, i, ref_picture, pix_op) ==
    IF i >= 2 THEN << >>
    ELSE LET block_s == Asr(8, s.lowres)
             select == IF s.picture_structure # PictureOfParity(i) THEN 1 ELSE 0
         IN <<MotionCall(0, 0, select, ref_picture, pix_op,
                         s.mv[dir][2 * i + 1], 2 * block_s, Asr(s.mb_y, 1))>>
                \o DmvFieldLoop_AlwaysCurrent(s, dir, i + 1, "current_picture",
                                              "avg_h264_chroma_pixels_tab")

\* The loop of a field picture from pass i on: the calls it makes.
RECURSIVE DmvFieldLoop(_, _, _, _, _)
DmvFieldLoop(s, dir, i, ref_picture, pix_op) ==
    IF i >= 2 THEN << >>
    ELSE LET block_s == Asr(8, s.lowres)
             select == IF s.picture_structure # PictureOfParity(i) THEN 1 ELSE 0
         IN <<MotionCall(0, 0, select, ref_picture, pix_op,
                         s.mv[dir][2 * i + 1], 2 * block_s, Asr(s.mb_y, 1))>>
                \o DmvFieldLoop(s, dir, i + 1,
                                IF ~s.first_field THEN "current_picture" ELSE ref_picture,
                                "avg_h264_chroma_pixels_tab")

\* MPV_motion_lowres(s, dest, dir, ref_picture, pix_op) for the geometries
\* MV_TYPE_16X16 and MV_TYPE_DMV: the calls of mpeg_motion_lowres in order.
MPV_motion_lowres(s, dir, ref_picture, pix_op) ==
    CASE s.mv_type = "MV_TYPE_16X16" ->
            <<MotionCall(0, 0, 0, ref_picture, pix_op, s.mv[dir][1],
                         2 * Asr(8, s.lowres), s.mb_y)>>
      [] s.mv_type = "MV_TYPE_DMV" ->
            IF s.picture_structure = "PICT_FRAME"
            THEN DmvFrameLoop(s, dir, 0, ref_picture, pix_op)
            ELSE DmvFieldLoop(s, dir, 0, ref_picture, pix_op)

\* The inputs: geometry, picture structure, field order, direction, the
\* reference and the primitive of the caller (put for the first direction
\* of a macroblock, avg for the second), the reduction and the row; vector
\* k of the direction is (k, a) for k <= 2 and (k, b) above.
DmvMvTypes == {"MV_TYPE_16X16", "MV_TYPE_DMV"}
DmvPictureStructures == {"PICT_FRAME", "PICT_TOP_FIELD", "PICT_BOTTOM_FIELD"}
DmvReferences == {"last_picture", "next_picture"}
PixOps == {"put_h264_chroma_pixels_tab", "avg_h264_chroma_pixels_tab"}
DmvMotions == {-1, 0, 1}
DmvRows == 0 .. MaxMbHeight - 1

InitDmv ==
    /\ codec_id = AV_CODEC_ID_MPEG4
    /\ hwaccel = FALSE
    /\ InitContexts
    /\ \E t \in DmvMvTypes, ps \in DmvPictureStructures, ff \in BOOLEAN, dir \in 0 .. 1 :
         \E ref \in DmvReferences, pix \in PixOps, lr \in LowresFactors, y \in DmvRows :
           \E a \in DmvMotions, b \in DmvMotions :
              mb = [fn |-> "input", mv_type |-> t, picture_structure |-> ps,
                    first_field |-> ff, dir |-> dir, ref_picture |-> ref,
                    pix_op |-> pix, lowres |-> lr, mb_y |-> y,
                    mv |-> [d \in 0 .. 1 |->
                              [k \in 1 .. 4 |->
                                  IF d # dir THEN <<0, 0>>
                                  ELSE IF k <= 2 THEN <<k, a>> ELSE <<k, b>>]]]

MPVMotionLowres ==
    /\ mb.fn = "input"
    /\ mb' = [fn |-> "MPV_motion_lowres", in |-> mb,
              calls |-> MPV_motion_lowres(mb, mb.dir, mb.ref_picture, mb.pix_op)]
    /\ UNCHANGED <<ctx, bufs, op, codec_id, hwaccel>>

NextDmv == MPVMotionLowres

SpecDmv == InitDmv /\ [][NextDmv]_vars

\* ----------------------------------------------------------------- claims
\* The slot a role pointer of context c refers to.
RolePtr(c, r) ==
    CASE r = "cur"  -> ctx[c].current_picture_ptr
      [] r = "last" -> ctx[c].last_picture_ptr
      [] r = "next" -> ctx[c].next_picture_ptr

\* Role r of context c is set and its slot holds a buffer.
Populated(c, r) == RolePtr(c, r) # NULL /\ ctx[c].picture[RolePtr(c, r)].buf # 0

\* The last operation was ff_mpv_frame_start on context 0 and returned ret.
StartedOK  == op.name = "frame_start" /\ op.ret = 0
StartedBad == op.name = "frame_start" /\ op.ret < 0

\* C1: whenever an operation returns, every role pointer that is set refers
\* to a slot that still holds the buffer the role was given (the slot was
\* not released, nor released and filled again, while the role was set).
C1_NoRoleOutlivesItsBuffer ==
    \A r \in Roles :
        RolePtr(0, r) # NULL =>
            /\ ctx[0].picture[RolePtr(0, r)].buf # 0
            /\ ctx[0].picture[RolePtr(0, r)].buf = ctx[0].given[r]

C3_ReferencesPresent ==
    StartedOK =>
        /\ ctx[0].pict_type # AV_PICTURE_TYPE_I => Populated(0, "last")
        /\ ctx[0].pict_type = AV_PICTURE_TYPE_B => Populated(0, "next")

\* The buffer in the slot of role r of context c.
RoleBuf(c, r) == bufs[ctx[c].picture[RolePtr(c, r)].buf]

C3_Witness ==
    /\ StartedOK
    /\ ctx[0].pict_type = AV_PICTURE_TYPE_B
    /\ Populated(0, "last") /\ RoleBuf(0, "last").dummy = "last"
    /\ Populated(0, "next") /\ RoleBuf(0, "next").dummy = "next"

\* C4: every dummy buffer ff_mpv_frame_start has synthesized, for the last or
\* for the next role, has its progress published as INT_MAX for both fields
\* whenever ff_mpv_frame_start has returned.
C4_DummyProgressDone ==
    \A b \in BufIds :
        bufs[b].dummy # "no" => bufs[b].progress = <<INT_MAX, INT_MAX>>

C4_Witness ==
    /\ StartedOK
    /\ \E b \in BufIds : bufs[b].dummy = "last" /\ bufs[b].progress = <<INT_MAX, INT_MAX>>
    /\ \E b \in BufIds : bufs[b].dummy = "next" /\ bufs[b].progress = <<INT_MAX, INT_MAX>>

\* The roles of context c that are set and whose slot holds a buffer.
Referenced(c) == {RolePtr(c, r) : r \in {x \in Roles : Populated(c, x)}}

\* C6: a search for an unused slot inside ff_mpv_frame_start fails only when
\* the roles reference as many buffers as the pool has slots, and the pool
\* is never full of buffers that no role references.
C6_SearchSucceeds ==
    /\ (op.name = "frame_start" /\ op.why = "no_buffer")
           => op.nref >= MAX_PICTURE_COUNT
    /\ ~(\A i \in Slots : ctx[0].picture[i].buf # 0 /\ i \notin Referenced(0))

C6_Witness ==
    /\ StartedOK
    /\ Cardinality(Referenced(0)) = 3
    /\ Cardinality(Referenced(0)) < MAX_PICTURE_COUNT

\* Every set role pointer of context c refers to a slot that holds a buffer.
SetRolesPopulated(c) == \A r \in Roles : RolePtr(c, r) # NULL => Populated(c, r)

\* C7: a failure of ff_mpv_frame_start for want of a slot or of a buffer is
\* returned as a negative status; the ff_mpv_frame_start that follows a
\* failed one, when the context's size is one a buffer can be allocated for
\* and no allocation fails (op.retry), succeeds without reinit and leaves
\* every set role pointer on a slot that holds a buffer.
C7_UsableAfterFailure ==
    /\ (op.name = "frame_start" /\ op.why \in {"no_buffer", "alloc"}) => op.ret < 0
    /\ (op.name = "frame_start" /\ op.retry) => (op.ret = 0 /\ SetRolesPopulated(0))

C7_Witness ==
    /\ StartedOK /\ op.retry
    /\ \E r \in Roles : RolePtr(0, r) # NULL
    /\ SetRolesPopulated(0)

\* C8: after ff_mpv_frame_start has succeeded, no role holds a buffer that is
\* flagged needs_realloc or that was allocated at another size than the
\* context's: buffers that existed before a size change are released and
\* allocated again before they serve as current, last or next picture.
C8_NoStaleBuffer ==
    StartedOK =>
        \A r \in Roles :
            Populated(0, r) =>
                /\ ~ctx[0].picture[RolePtr(0, r)].needs_realloc
                /\ RoleBuf(0, r).w = ctx[0].width
                /\ RoleBuf(0, r).h = ctx[0].height

C8_Witness ==
    /\ StartedOK
    /\ Populated(0, "cur")
    /\ \E i \in Slots :
          /\ ctx[0].picture[i].needs_realloc
          /\ ctx[0].picture[i].buf # 0
          /\ bufs[ctx[0].picture[i].buf].w # ctx[0].width

\* C9: a call of ff_mpv_common_frame_size_change on an initialised context,
\* successful or not, leaves every slot flagged needs_realloc, every slot
\* with the buffer it had, and the three role pointers null.
C9_SizeChangeRetires ==
    [][(op'.name = "frame_size_change" /\ ctx[op'.c].context_initialized)
          => LET c == op'.c
             IN /\ \A i \in Slots :
                     /\ ctx'[c].picture[i].needs_realloc
                     /\ (ctx'[c].picture[i].buf = 0) = (ctx[c].picture[i].buf = 0)
                     /\ ctx[c].picture[i].buf # 0
                           => bufs'[ctx'[c].picture[i].buf] = bufs[ctx[c].picture[i].buf]
                /\ ctx'[c].current_picture_ptr = NULL
                /\ ctx'[c].last_picture_ptr = NULL
                /\ ctx'[c].next_picture_ptr = NULL]_vars

C9_Witness ==
    /\ op.name = "frame_size_change" /\ op.ret < 0
    /\ \E i \in Slots : ctx[0].picture[i].buf # 0 /\ ctx[0].picture[i].needs_realloc
    /\ \A r \in Roles : RolePtr(0, r) = NULL

\* C5: a dummy last buffer synthesized without a hardware accelerator has
\* every luma sample inside width x height equal to 0x80, or to 16 for FLV1
\* and H.263, and every chroma sample inside the subsampled area equal to 0x80.
C5_DummyLastFill ==
    ~hwaccel =>
        \A b \in BufIds :
            bufs[b].dummy = "last" =>
                LET sh   == av_pix_fmt_get_chroma_sub_sample(bufs[b].fmt)
                    luma == IF codec_id \in {AV_CODEC_ID_FLV1, AV_CODEC_ID_H263}
                            THEN 16 ELSE 128
                IN /\ \A i \in 0 .. bufs[b].h - 1, j \in 0 .. bufs[b].w - 1 :
                         bufs[b].data[1][<<i, j>>] = luma
                   /\ \A k \in {2, 3} :
                         bufs[b].data[k] # EmptyPlane =>
                             \A i \in 0 .. AV_CEIL_RSHIFT(bufs[b].h, sh[3]) - 1,
                                j \in 0 .. AV_CEIL_RSHIFT(bufs[b].w, sh[2]) - 1 :
                                 bufs[b].data[k][<<i, j>>] = 128

C5_Witness ==
    /\ ~hwaccel /\ codec_id = AV_CODEC_ID_FLV1
    /\ StartedOK /\ Populated(0, "last")
    /\ RoleBuf(0, "last").dummy = "last"
    /\ RoleBuf(0, "last").fmt = "YUV420P"
    /\ RoleBuf(0, "last").h = 1
    /\ RoleBuf(0, "last").data[1][<<0, 1>>] = 16
    /\ RoleBuf(0, "last").data[3][<<0, 0>>] = 128

\* What every direct call of ff_mpv_common_frame_size_change leaves, given
\* whether the size it was called with fails the validation.
SizeChangeOutcome(rejected) ==
    op.name = "frame_size_change" =>
        LET s == ctx[op.c]
        IN /\ (\/ rejected
               \/ av_pix_fmt_get_chroma_sub_sample(s.pix_fmt)[1] < 0
               \/ op.why = "alloc") => op.ret < 0
           /\ op.ret < 0 => (~s.frame_alloc /\ s.context_reinit)
           /\ op.ret = 0 => ~s.context_reinit

\* What a call of ff_mpeg_update_thread_context on a destination with a
\* reinit pending does (a step of the machine): the size change is attempted;
\* when it fails no picture is copied, when it succeeds the slots copied from
\* the source carry the source's flags, not the size change's.
RetryAtUpdate ==
    LET dst == op'.c
        src == op'.src
    IN /\ op'.resized
       /\ op'.ret < 0 =>
             /\ \A i \in Slots :
                   /\ (ctx'[dst].picture[i].buf = 0) = (ctx[dst].picture[i].buf = 0)
                   /\ ctx'[dst].picture[i].needs_realloc
             /\ ctx'[dst].context_reinit
       /\ op'.ret = 0 =>
             /\ \A i \in Slots :
                   ctx'[src].picture[i].buf # 0
                       => ctx'[dst].picture[i] = ctx'[src].picture[i]
             /\ ~ctx'[dst].context_reinit

\* C10 as stated: ff_mpv_common_frame_size_change fails whenever the size is
\* one av_image_check_size rejects, the chroma shifts are not determined or
\* a reallocation fails; a failure frees the allocations and sets
\* context_reinit, a success clears it; every ff_mpeg_update_thread_context
\* on a context with context_reinit set attempts the size change first.
C10_SizeChangeFailure ==
    /\ [](op.name = "frame_size_change"
            => SizeChangeOutcome(av_image_check_size(ctx[op.c].width, ctx[op.c].height) < 0))
    /\ [][(op'.name = "update_thread_context" /\ ctx[op'.c].context_reinit)
             => RetryAtUpdate]_vars

\* C10 amended: the size is validated unless both dimensions are zero (0x0
\* is accepted), and the size change is attempted again at the next
\* ff_mpeg_update_thread_context whose destination differs from its source.
C10_SizeChangeFailureAmended ==
    /\ [](op.name = "frame_size_change"
            => SizeChangeOutcome(SizeChangeCheck(ctx[op.c].width, ctx[op.c].height) < 0))
    /\ [][(op'.name = "update_thread_context" /\ op'.c # op'.src
              /\ ctx[op'.c].context_reinit)
             => RetryAtUpdate]_vars

C10_Witness ==
    /\ op.name = "update_thread_context" /\ op.c = 1 /\ op.src = 0
    /\ op.pending /\ op.resized /\ op.ret = 0
    /\ ctx[1].width = ctx[0].width /\ ctx[1].height = ctx[0].height
    /\ ~ctx[1].context_reinit
    /\ \E i \in Slots : ctx[1].picture[i].buf # 0 /\ ~ctx[1].picture[i].needs_realloc

\* The last operation was a successful ff_mpeg_update_thread_context whose
\* destination differs from its source.
UpdatedOK ==
    op.name = "update_thread_context" /\ op.c # op.src /\ op.ret = 0

C12_PoolShared ==
    UpdatedOK =>
        \A i \in Slots :
            /\ ctx[op.c].picture[i].buf = ctx[op.src].picture[i].buf
            /\ ctx[op.c].picture[i].buf # 0
                  => ctx[op.c].picture[i] = ctx[op.src].picture[i]

C12_Witness ==
    /\ UpdatedOK
    /\ \E i \in Slots : ctx[1].picture[i].buf # 0
    /\ \E i \in Slots : ctx[1].picture[i].buf = 0
    /\ op.pending

C14_FlushResets ==
    [][op'.name = "flush" =>
         LET s == ctx[op'.c]
             d == ctx'[op'.c]
         IN /\ d.current_picture_ptr = NULL
            /\ d.last_picture_ptr = NULL
            /\ d.next_picture_ptr = NULL
            /\ \A i \in Slots : d.picture[i] = EmptyPic
            /\ d.current_picture = EmptyPic
            /\ d.last_picture = EmptyPic
            /\ d.next_picture = EmptyPic
            /\ d.mb_x = 0 /\ d.mb_y = 0
            /\ d.bitstream_buffer_size = 0
            /\ d.width = s.width /\ d.height = s.height /\ d.pix_fmt = s.pix_fmt
            /\ d.context_initialized = s.context_initialized
            /\ d.context_reinit = s.context_reinit
            /\ d.has_picture = s.has_picture
            /\ d.frame_alloc = s.frame_alloc]_vars

\* A flush has released pool slots of an initialised context.
C14_Witness ==
    /\ op.name = "flush" /\ op.why = "ok" /\ op.nref >= 2
    /\ ctx[op.c].context_initialized /\ ctx[op.c].frame_alloc
    /\ \A i \in Slots : ctx[op.c].picture[i].buf = 0

\* The pictures decoded from the stream that are published as done.
DonePictures(B) ==
    {b \in BufIds : B[b].dummy = "no" /\ B[b].w > 0 /\ B[b].progress[1] = INT_MAX}

\* C15: a picture that is not a dummy is published as done by
\* ff_mpv_frame_end alone: no other operation, a failing ff_mpv_frame_start
\* included, adds a done picture, and the current picture of a context that
\* is still between ff_mpv_frame_start and ff_mpv_frame_end is not done.
C15_DoneOnlyAtFrameEnd ==
    /\ [](\A c \in Ctx :
            (ctx[c].phase = "decoding" /\ Populated(c, "cur"))
                => RoleBuf(c, "cur").progress[1] < INT_MAX)
    /\ [][Cardinality(DonePictures(bufs')) > Cardinality(DonePictures(bufs))
             => op'.name = "frame_end"]_vars

\* A frame start fails while a picture published by ff_mpv_frame_end is in
\* the pool.
C15_Witness ==
    /\ op.name = "frame_start" /\ op.ret < 0
    /\ DonePictures(bufs) # {}

\* C16: while one context reports rows and ends its picture and another
\* reads, no progress counter of any buffer decreases, and ending a picture
\* that is already published as done changes no counter.
C16_ProgressMonotone ==
    [][op'.name \in {"report_decode_progress", "frame_end", "await_progress"} =>
         /\ \A b \in BufIds : \A f \in 1 .. 2 :
                bufs'[b].progress[f] >= bufs[b].progress[f]
         /\ (op'.name = "frame_end" /\ op'.why = "again") => bufs' = bufs]_vars

\* A row below the published one has been reported on a picture the other
\* context reads.
C16_Witness ==
    /\ op.name = "report_decode_progress" /\ op.why = "ok"
    /\ Populated(0, "cur")
    /\ ctx[0].mb_y < RoleBuf(0, "cur").progress[1]
    /\ ctx[1].next_picture.buf = ctx[0].picture[ctx[0].current_picture_ptr].buf

\* C17: add_dct leaves the destination as it was when the last index of
\* block i is negative, and adds the block's residual to it in place when
\* the index is zero or more.
C17_AddDct ==
    mb.fn = "add_dct" =>
        IF mb.block_last_index[mb.i] < 0
        THEN mb.dest = mb.dest0
        ELSE mb.dest = [p \in 1 .. 2 |->
                           av_clip_uint8(mb.dest0[p] + Asr(mb.block[1] + 4, 3))]

\* A block whose last index is zero has changed the destination.
C17_Witness ==
    /\ mb.fn = "add_dct"
    /\ mb.block_last_index[mb.i] = 0
    /\ mb.dest # mb.dest0

\* The fetches of the function that has run, each with the decision that
\* applies to it: the luma or chroma fetch of the one-plane functions, the
\* luma and the chroma fetches of mpeg_motion_lowres.
Fetched ==
    mb.fn \in {"hpel_motion_lowres", "mpeg_motion_lowres", "chroma_4mv_motion_lowres"}
Fetches ==
    IF mb.fn = "mpeg_motion_lowres"
    THEN {[f |-> mb.out.luma, emu |-> mb.out.emu, tests |-> TRUE],
          [f |-> mb.out.chroma, emu |-> mb.out.emu, tests |-> FALSE]}
    ELSE {[f |-> mb.out, emu |-> mb.out.emu, tests |-> TRUE]}

\* The samples a fetch reads: the block, and one more column or row when
\* the phase is fractional.
FetchRight(f) == f.src_x + f.w + NotNot(f.sx)
FetchBottom(f) == f.src_y + f.h + NotNot(f.sy)
Outside(f) ==
    \/ f.src_x < 0 \/ f.src_y < 0
    \/ FetchRight(f) > f.h_edge_pos
    \/ FetchBottom(f) > f.v_edge_pos

\* C18: in the three fetch functions, a fetch with zero phase that lies
\* inside the picture and ends exactly on its right or bottom edge does not
\* run the edge emulation; a position beyond that in either dimension, or a
\* negative position, does.
C18_EdgeExact ==
    Fetched =>
        \A t \in Fetches : t.tests =>
            LET f == t.f
            IN /\ (/\ f.sx = 0 /\ f.sy = 0
                   /\ f.src_x >= 0 /\ f.src_y >= 0
                   /\ f.src_x <= f.h_edge_pos - f.w
                   /\ f.src_y <= f.v_edge_pos - f.h
                   /\ (f.src_x = f.h_edge_pos - f.w \/ f.src_y = f.v_edge_pos - f.h))
                      => ~t.emu
               /\ (\/ f.src_x > f.h_edge_pos - f.w
                   \/ f.src_y > f.v_edge_pos - f.h
                   \/ f.src_x < 0 \/ f.src_y < 0)
                      => t.emu

\* mpeg_motion_lowres has fetched a block that ends on the right and the
\* bottom edge, without emulation.
C18_Witness ==
    /\ mb.fn = "mpeg_motion_lowres"
    /\ mb.out.luma.sx = 0 /\ mb.out.luma.sy = 0
    /\ mb.out.luma.src_x = mb.out.luma.h_edge_pos - mb.out.luma.w
    /\ mb.out.luma.src_y = mb.out.luma.v_edge_pos - mb.out.luma.h
    /\ mb.out.luma.src_x > 0
    /\ ~mb.out.emu

\* C19: whenever the samples a fetch reads from the luma plane or from the
\* chroma planes lie outside the picture on any side, the edge emulation
\* runs for that plane.
C19_NeverUnderDetects ==
    Fetched => \A t \in Fetches : Outside(t.f) => t.emu

\* The vectors the geometry uses, and the macroblock row of the bottom-most
\* sample row a vector reads: the last row of the macroblock, displaced by
\* the vertical component in samples, rounded up for the interpolation.
VectorsUsed(s) ==
    CASE s.mv_type = "MV_TYPE_16X16" -> 1 .. 1
      [] s.mv_type = "MV_TYPE_16X8"  -> 1 .. 2
      [] s.mv_type = "MV_TYPE_8X8"   -> 1 .. 4
      [] OTHER -> {}
CeilDiv(a, b) == -((-a) \div b)
BottomRow(s, my) ==
    (16 * s.mb_y + 15 + CeilDiv(my, IF s.quarter_sample THEN 4 ELSE 2)) \div 16

\* C20: for the 16x16, 16x8 and 8x8 geometries of a frame picture, the row
\* lowest_referenced_row(dir) returns is at least the macroblock row of the
\* bottom-most sample row any vector of direction dir reads, or the last
\* row of the picture when that row lies below it.
C20_RowCoversVectors ==
    (mb.fn = "lowest_referenced_row" /\ mb.in.picture_structure = "PICT_FRAME") =>
        \A i \in VectorsUsed(mb.in) :
            mb.out >= FFMIN(BottomRow(mb.in, mb.in.mv[mb.in.dir][i][2]),
                            mb.in.mb_height - 1)

\* A vector reaches the row below the macroblock's, which is not the last
\* row, and that row is returned.
C20_Witness ==
    /\ mb.fn = "lowest_referenced_row"
    /\ mb.in.picture_structure = "PICT_FRAME" /\ ~mb.in.mcsel
    /\ mb.in.mv_type = "MV_TYPE_8X8"
    /\ mb.out = mb.in.mb_y + 1
    /\ mb.out < mb.in.mb_height - 1
    /\ \E i \in 1 .. 4 : BottomRow(mb.in, mb.in.mv[mb.in.dir][i][2]) = mb.out

\* C21: a successful ff_mpv_frame_start leaves, for a B picture, the last
\* and next role pointers where they were; for another picture last is the
\* former next, and next is the new current slot unless the picture is
\* droppable, in which case it stays.  Only a role for which a dummy has been
\* synthesized differs from that.
C21_Rotation ==
    [][(op'.name = "frame_start" /\ op'.ret = 0) =>
         LET s == ctx[op'.c]
             d == ctx'[op'.c]
             isB == d.pict_type = AV_PICTURE_TYPE_B
             last == IF isB THEN s.last_picture_ptr ELSE s.next_picture_ptr
             next == IF isB \/ d.droppable THEN s.next_picture_ptr
                     ELSE d.current_picture_ptr
         IN /\ d.last_picture_ptr # last =>
                   /\ d.pict_type # AV_PICTURE_TYPE_I
                   /\ bufs'[d.picture[d.last_picture_ptr].buf].dummy = "last"
            /\ d.next_picture_ptr # next =>
                   /\ isB
                   /\ bufs'[d.picture[d.next_picture_ptr].buf].dummy = "next"]_vars

\* A droppable P picture has started: last and next are the same slot, the
\* former next, and the current slot is another one.
C21_Witness ==
    /\ StartedOK
    /\ ctx[0].pict_type = AV_PICTURE_TYPE_P /\ ctx[0].droppable
    /\ ctx[0].next_picture_ptr # NULL
    /\ ctx[0].last_picture_ptr = ctx[0].next_picture_ptr
    /\ ctx[0].current_picture_ptr # ctx[0].next_picture_ptr
    /\ RoleBuf(0, "last").dummy = "no"

\* The context on which the release loop of a started frame runs (the old
\* last picture is released before it), and the slots whose buffer the loop
\* releases.
LoopInput == ReleaseOldLast([ctx[op'.c] EXCEPT !.pict_type = ctx'[op'.c].pict_type])
LoopHeld == {i \in Slots : LoopInput.picture[i].buf # 0}
LoopReleased == {i \in LoopHeld : ReleaseForgotten(LoopInput).picture[i].buf = 0}
LoopRuns == op'.name = "frame_start" /\ op'.why # "not_setup"

\* C22: the release loop of ff_mpv_frame_start releases a slot's buffer
\* exactly when the slot holds none of the current, last and next roles, is
\* not a reference and is not flagged needs_realloc; a slot that holds a role
\* or is flagged needs_realloc keeps its buffer.
C22_ReleaseExact ==
    [][LoopRuns =>
         LET s == LoopInput
             role(i) == i \in {s.current_picture_ptr, s.last_picture_ptr,
                               s.next_picture_ptr}
         IN \A i \in LoopHeld :
               /\ i \in LoopReleased <=>
                      (~role(i) /\ s.picture[i].reference = 0
                                /\ ~s.picture[i].needs_realloc)
               /\ (role(i) \/ s.picture[i].needs_realloc) => i \notin LoopReleased]_vars

\* C22, amended: the loop releases a slot's buffer exactly when its
\* reference is 0, or the slot is neither that of the last role nor that of
\* the next role and is not flagged needs_realloc.  The current role
\* protects nothing, and the last role, the next role and needs_realloc
\* protect a slot only while its reference is not 0.
C22_ReleaseExactAmended ==
    [][LoopRuns =>
         LET s == LoopInput
         IN \A i \in LoopHeld :
               i \in LoopReleased <=>
                   \/ s.picture[i].reference = 0
                   \/ (/\ i # s.last_picture_ptr
                       /\ i # s.next_picture_ptr
                       /\ ~s.picture[i].needs_realloc)]_vars

\* A frame has started after a size change, and a slot flagged
\* needs_realloc still holds its buffer.
C22_Witness ==
    /\ StartedOK
    /\ \E i \in Slots : ctx[0].picture[i].needs_realloc /\ ctx[0].picture[i].buf # 0

\* The occupied slots of a context, and those among them whose buffer was
\* allocated for a coded picture (not as a dummy reference).
Occupied(c) == {i \in Slots : ctx[c].picture[i].buf # 0}
Coded(c) == {i \in Occupied(c) : bufs[ctx[c].picture[i].buf].dummy = "no"}

\* C23: in every reachable state of the pool no two occupied slots hold
\* buffers with the same coded picture number, and the pool has
\* MAX_PICTURE_COUNT slots.
C23_NumbersUnique ==
    /\ \A i, j \in Occupied(0) :
           i # j => ctx[0].picture[i].coded_picture_number
                        # ctx[0].picture[j].coded_picture_number
    /\ Cardinality(DOMAIN ctx[0].picture) = MAX_PICTURE_COUNT

\* C23, amended: no two occupied slots that hold coded pictures have the
\* same coded picture number, every dummy reference has number 0 (so that
\* two dummies, or a dummy and the first picture, have the same number), and
\* the pool has MAX_PICTURE_COUNT slots.
C23_NumbersUniqueAmended ==
    /\ \A i, j \in Coded(0) :
           i # j => ctx[0].picture[i].coded_picture_number
                        # ctx[0].picture[j].coded_picture_number
    /\ \A i \in Occupied(0) \ Coded(0) : ctx[0].picture[i].coded_picture_number = 0
    /\ Cardinality(DOMAIN ctx[0].picture) = MAX_PICTURE_COUNT

\* A frame has started with three coded pictures in the pool, none of them
\* the first picture.
C23_Witness ==
    /\ StartedOK
    /\ Cardinality(Coded(0)) >= 3
    /\ \A i \in Coded(0) : ctx[0].picture[i].coded_picture_number > 0

\* C24: ff_mpv_frame_start gives the current picture reference 0 when the
\* picture is droppable or a B picture and 3 otherwise, and ff_mpv_frame_end
\* reports the current picture fully decoded (progress INT_MAX, field 0)
\* exactly when that reference is not 0; otherwise it leaves the progress
\* where it was.
C24_ReferenceAndDone ==
    /\ [](StartedOK =>
            LET s == ctx[0]
                strength == IF s.droppable \/ s.pict_type = AV_PICTURE_TYPE_B
                            THEN 0 ELSE 3
            IN /\ s.picture[s.current_picture_ptr].reference = strength
               /\ s.current_picture.reference = strength)
    /\ [][(op'.name = "frame_end" /\ op'.why = "ok") =>
            LET s == ctx[0]
                before == bufs[s.picture[s.current_picture_ptr].buf].progress
                after == bufs'[ctx'[0].picture[s.current_picture_ptr].buf].progress
            IN /\ before[1] < INT_MAX
               /\ after[1] = INT_MAX <=> s.picture[s.current_picture_ptr].reference # 0
               /\ s.picture[s.current_picture_ptr].reference = 0 => after = before]_vars

\* A droppable P picture has been ended and is not reported decoded.
C24_Witness ==
    /\ op.name = "frame_end" /\ op.why = "ok"
    /\ ctx[0].droppable /\ ctx[0].pict_type = AV_PICTURE_TYPE_P
    /\ ctx[0].current_picture.reference = 0
    /\ RoleBuf(0, "cur").progress[1] < INT_MAX

\* C25: a dummy next buffer synthesized for a B picture without a hardware
\* accelerator is filled like a dummy last buffer: every luma sample inside
\* width x height equal to 0x80, or to 16 for FLV1 and H.263, and every
\* chroma sample inside the subsampled area equal to 0x80.
C25_DummyNextFill ==
    ~hwaccel =>
        \A b \in BufIds :
            bufs[b].dummy = "next" =>
                LET sh   == av_pix_fmt_get_chroma_sub_sample(bufs[b].fmt)
                    luma == IF codec_id \in {AV_CODEC_ID_FLV1, AV_CODEC_ID_H263}
                            THEN 16 ELSE 128
                IN /\ \A i \in 0 .. bufs[b].h - 1, j \in 0 .. bufs[b].w - 1 :
                         bufs[b].data[1][<<i, j>>] = luma
                   /\ \A k \in {2, 3} :
                         bufs[b].data[k] # EmptyPlane =>
                             \A i \in 0 .. AV_CEIL_RSHIFT(bufs[b].h, sh[3]) - 1,
                                j \in 0 .. AV_CEIL_RSHIFT(bufs[b].w, sh[2]) - 1 :
                                 bufs[b].data[k][<<i, j>>] = 128

\* C26: lowest_referenced_row returns mb_height - 1 whenever the picture is
\* a field picture, mcsel is on, or the geometry is field-based or
\* dual-prime; for the 16x16, 16x8 and 8x8 geometries the result is within
\* 0 .. mb_height - 1.
C26_UnhandledLastRow ==
    mb.fn = "lowest_referenced_row" =>
        /\ (\/ mb.in.picture_structure # "PICT_FRAME"
            \/ mb.in.mcsel
            \/ mb.in.mv_type \in {"MV_TYPE_FIELD", "MV_TYPE_DMV"})
               => mb.out = mb.in.mb_height - 1
        /\ mb.in.mv_type \in {"MV_TYPE_16X16", "MV_TYPE_16X8", "MV_TYPE_8X8"}
               => mb.out \in 0 .. mb.in.mb_height - 1

\* The last row is returned for a 16x16 macroblock with mcsel in the first
\* row of a frame picture, whose vectors stay within its own row.
C26_Witness ==
    /\ mb.fn = "lowest_referenced_row"
    /\ mb.in.picture_structure = "PICT_FRAME" /\ mb.in.mcsel
    /\ mb.in.mv_type = "MV_TYPE_16X16"
    /\ mb.in.mb_y = 0 /\ mb.in.mb_height = MaxMbHeight
    /\ \A i \in 1 .. 4 : mb.in.mv[mb.in.dir][i][2] = 0
    /\ mb.out = MaxMbHeight - 1

\* C27: for MV_TYPE_DMV, MPV_motion_lowres makes the calls of the first pass
\* with the caller's pixel primitive and those of the second pass with the
\* averaging primitive.  A frame picture has two calls per pass, field based,
\* for the parities j = 0, 1 with field select j xor i in pass i, all from
\* the caller's reference.  A field picture has one call per pass, and its
\* second pass reads the current picture exactly when the picture is not the
\* first field, the caller's reference otherwise.
C27_DualPrime ==
    (mb.fn = "MPV_motion_lowres" /\ mb.in.mv_type = "MV_TYPE_DMV") =>
        LET in == mb.in
            calls == mb.calls
            avg == "avg_h264_chroma_pixels_tab"
        IN IF in.picture_structure = "PICT_FRAME"
           THEN /\ Len(calls) = 4
                /\ \A i \in 0 .. 1, j \in 0 .. 1 :
                      LET c == calls[2 * i + j + 1]
                      IN /\ c.pix_op = IF i = 0 THEN in.pix_op ELSE avg
                         /\ c.field_based = 1
                         /\ c.bottom_field = j
                         /\ c.field_select = (IF i = j THEN 0 ELSE 1)
                         /\ c.ref_picture = in.ref_picture
                         /\ <<c.motion_x, c.motion_y>> = in.mv[in.dir][2 * i + j + 1]
           ELSE /\ Len(calls) = 2
                /\ calls[1].pix_op = in.pix_op
                /\ calls[1].ref_picture = in.ref_picture
                /\ calls[2].pix_op = avg
                /\ calls[2].ref_picture = "current_picture" <=> ~in.first_field
                /\ in.first_field => calls[2].ref_picture = in.ref_picture
                /\ \A k \in 1 .. 2 : calls[k].field_based = 0

\* The second field of a field picture: the first pass put from the last
\* picture, the second averaged from the current picture.
C27_Witness ==
    /\ mb.fn = "MPV_motion_lowres" /\ mb.in.mv_type = "MV_TYPE_DMV"
    /\ mb.in.picture_structure = "PICT_BOTTOM_FIELD" /\ ~mb.in.first_field
    /\ mb.in.pix_op = "put_h264_chroma_pixels_tab"
    /\ mb.calls[1].ref_picture = "last_picture"
    /\ mb.calls[1].pix_op = "put_h264_chroma_pixels_tab"
    /\ mb.calls[2].ref_picture = "current_picture"
    /\ mb.calls[2].pix_op = "avg_h264_chroma_pixels_tab"

\* C28: after ff_mpeg_update_thread_context has returned 0 with a source
\* that has a bitstream buffer, the destination's bitstream_buffer_size is
\* the source's, its buffer starts with the source's bytes followed by
\* AV_INPUT_BUFFER_PADDING_SIZE zero bytes, and these lie inside its
\* allocation; when the allocation cannot be grown the call returns
\* AVERROR(ENOMEM) and the destination's bitstream_buffer_size is 0.
C28_BitstreamCopied ==
    (op.name = "update_thread_context" /\ op.c # op.src) =>
        LET d == ctx[op.c]
            s1 == ctx[op.src]
            n == s1.bitstream_buffer_size
        IN /\ (op.ret = 0 /\ s1.bitstream_buffer) =>
                 /\ d.bitstream_buffer
                 /\ d.bitstream_buffer_size = n
                 /\ d.allocated_bitstream_buffer_size >= n + AV_INPUT_BUFFER_PADDING_SIZE
                 /\ Len(d.bitstream_bytes) = d.allocated_bitstream_buffer_size
                 /\ \A i \in 1 .. n : d.bitstream_bytes[i] = s1.bitstream_bytes[i]
                 /\ \A i \in n + 1 .. n + AV_INPUT_BUFFER_PADDING_SIZE :
                        d.bitstream_bytes[i] = 0
           /\ op.why = "bitstream" =>
                 /\ op.ret = AVERROR(ENOMEM)
                 /\ d.bitstream_buffer_size = 0

\* An update has copied the short run of bytes into an allocation that had
\* been grown for the long one: bytes of the long run remain after the
\* padding.
C28_Witness ==
    /\ op.name = "update_thread_context" /\ op.c = 1 /\ op.src = 0 /\ op.ret = 0
    /\ ctx[0].bitstream_buffer
    /\ ctx[1].bitstream_buffer_size = MaxBitstream
    /\ ctx[1].allocated_bitstream_buffer_size
           > BigBitstream + AV_INPUT_BUFFER_PADDING_SIZE
    /\ ctx[1].bitstream_bytes[MaxBitstream + AV_INPUT_BUFFER_PADDING_SIZE + 1] > 0

\* C29: after a successful ff_mpv_frame_start the working copy
\* current_picture refers to the buffer in the slot of current_picture_ptr,
\* and last_picture and next_picture refer to the buffers in the slots of
\* last_picture_ptr and next_picture_ptr when these are set and hold data,
\* and are empty otherwise: no working copy refers to a buffer that is not
\* in its role.
C29_WorkingCopies ==
    StartedOK =>
        LET s == ctx[0]
            copy(r) == CASE r = "cur"  -> s.current_picture
                         [] r = "last" -> s.last_picture
                         [] r = "next" -> s.next_picture
        IN /\ Populated(0, "cur")
           /\ \A r \in Roles :
                 IF Populated(0, r)
                 THEN /\ copy(r).buf = s.picture[RolePtr(0, r)].buf
                      /\ copy(r).reference = s.picture[RolePtr(0, r)].reference
                 ELSE copy(r) = EmptyPic

\* An I picture has started after a size change: no last picture, while
\* the pool still holds a buffer of the pictures before.
C29_Witness ==
    /\ StartedOK
    /\ ctx[0].pict_type = AV_PICTURE_TYPE_I
    /\ ~Populated(0, "last") /\ ctx[0].last_picture = EmptyPic
    /\ ctx[0].current_picture.buf = ctx[0].picture[ctx[0].current_picture_ptr].buf
    /\ ctx[0].next_picture.buf = ctx[0].current_picture.buf
    /\ \E i \in Slots : ctx[0].picture[i].buf # 0 /\ ctx[0].picture[i].needs_realloc

\* C30: after a successful ff_mpv_frame_start the current slot is not the
\* slot of the last role, and it is the slot of the next role exactly when
\* the picture is neither of type B nor droppable.
C30_CurrentAgainstRoles ==
    StartedOK =>
        /\ ctx[0].current_picture_ptr # ctx[0].last_picture_ptr
        /\ ctx[0].current_picture_ptr = ctx[0].next_picture_ptr
              <=> (ctx[0].pict_type # AV_PICTURE_TYPE_B /\ ~ctx[0].droppable)

====
